---- MODULE Spec2Model ----
(***************************************************************************)
(* Model of the VATPAC watchlist worker (Cloudflare Worker backend):       *)
(* the single-file GitHub store facade, the REST handlers for the          *)
(* watchlist, and the scheduled tick.                                      *)
(*                                                                         *)
(* Module-level variables of the worker script (GH_STORE, GH_STORE_SHA,    *)
(* GH_STORE_DIRTY, subreqCount) live as long as the isolate that loaded    *)
(* the script, so they are modelled per isolate and survive from one       *)
(* invocation to the next.  Each isolate serves one invocation at a time;  *)
(* invocations of different isolates interleave at every request to the    *)
(* remote store.                                                           *)
(*                                                                         *)
(* Strings that the code takes apart (CIDs) are sequences of one-character *)
(* strings.  An optional value (a missing key, null) is the empty set and  *)
(* a present value v is {v}.                                               *)
(***************************************************************************)
EXTENDS Integers, Sequences, FiniteSets, TLC

----------------------------------------------------------------------------
\* Bounds of the model.
MaxInv == 3          \* invocations started over a behaviour
MaxFaults == 1       \* failed store requests (GET/PUT answered not-ok, not 409)
Isolates == {1, 2}   \* worker isolates
SeedTotal == 50      \* CIDs of the audit job a scheduled run starts with

----------------------------------------------------------------------------
\* Program constants.
SLICE_SIZE == 10
BLOCK_SIZE == 4
SUBREQ_BUDGET_PER_TICK == 120
STORE_CLEANUP_INTERVAL == 6 * 60 * 60
TTL_RATING_24H == 24 * 60 * 60
TTL_MEMBER_7D == 7 * 24 * 60 * 60

----------------------------------------------------------------------------
\* Optional values.
None == {}
Some(x) == {x}
The(o) == CHOOSE x \in o : TRUE

Range(s) == {s[k] : k \in 1..Len(s)}

----------------------------------------------------------------------------
\* Strings as sequences of characters, and the conversions of canonicalCID.
Digits == <<"0", "1", "2", "3", "4", "5", "6", "7", "8", "9">>

IsDigit(c) == \E k \in 1..10 : Digits[k] = c

DigitVal(c) == (CHOOSE k \in 1..10 : Digits[k] = c) - 1

\* s.replace(/\D+/g, "")
StripNonDigits(s) == SelectSeq(s, IsDigit)

\* Number(d) for a string of decimal digits
RECURSIVE Number(_)
Number(d) ==
  IF d = <<>> THEN 0
  ELSE 10 * Number(SubSeq(d, 1, Len(d) - 1)) + DigitVal(d[Len(d)])

\* String(n) for a non-negative integer
RECURSIVE String(_)
String(n) ==
  IF n < 10 THEN <<Digits[n + 1]>>
  ELSE String(n \div 10) \o <<Digits[(n % 10) + 1]>>

\* A request body's cid field: a JSON string, a JSON number, or missing.
StrCid(s) == [t |-> "str", s |-> s, n |-> 0]
NumCid(n) == [t |-> "num", s |-> <<>>, n |-> n]
NoCid == [t |-> "none", s |-> <<>>, n |-> 0]

\* (s||"").replace(...) raises a TypeError when s is a non-zero number.
canonicalCIDThrows(s) == s.t = "num" /\ s.n # 0

\* canonicalCID(s): None is null.
canonicalCID(s) ==
  LET d == StripNonDigits(IF s.t = "str" THEN s.s ELSE <<>>)
  IN  IF Len(d) >= 3 /\ Len(d) <= 10 THEN Some(String(Number(d))) ELSE None

----------------------------------------------------------------------------
\* Time.  The clock steps through sample instants; ts() is the epoch second
\* of the current instant and new Date() its UTC calendar fields (month is
\* zero-based as in getUTCMonth).
Instants ==
  << [y |-> 2025, m |-> 2, d |-> 31, h |-> 23, epoch |-> 1743465300],
     [y |-> 2025, m |-> 3, d |-> 1,  h |-> 0,  epoch |-> 1743465600],
     [y |-> 2025, m |-> 3, d |-> 1,  h |-> 0,  epoch |-> 1743465900],
     [y |-> 2025, m |-> 3, d |-> 1,  h |-> 6,  epoch |-> 1743487500],
     [y |-> 2025, m |-> 3, d |-> 16, h |-> 0,  epoch |-> 1744761900] >>

----------------------------------------------------------------------------
\* Inputs.
PostBodies ==
  { StrCid(<<"1", "0", "0">>), StrCid(<<"2", "0", "0">>),
    StrCid(<<"3", "0", "0">>), StrCid(<<"0", "0", "0", "1", "2">>),
    StrCid(<<"a", "b", "c">>),
    NumCid(100) }

\* the :cid segment of DELETE /api/watchlist/:cid (matches \d+)
DeletePaths == { <<"1", "0", "0">>, <<"0", "1", "0", "0">> }

\* the CIDs for which GET /v2/members/<cid> answers 200
Members == { <<"1", "0", "0">>, <<"2", "0", "0">>, <<"1", "2">> }

\* every CID string that can become part of a store key
CanonCids == UNION {canonicalCID(b) : b \in PostBodies}

\* quarterKeyForPrev(dateUtc), the key `${year}Q${prevQ}` as a record
quarterKeyForPrev(dateUtc) ==
  LET q == (dateUtc.m \div 3) + 1
  IN  IF q - 1 < 1 THEN [year |-> dateUtc.y - 1, q |-> 4]
      ELSE [year |-> dateUtc.y, q |-> q - 1]

\* the quarter keys of the sample instants
QKeys == {quarterKeyForPrev(Instants[k]) : k \in 1..Len(Instants)}

\* the live feed: whether the fetch answered ok, and the controllers listed
Ctl(cid, callsign) == [cid |-> cid, callsign |-> callsign]
FeedCids == { <<"1", "0", "0">>, <<"2", "0", "0">> }
FeedResponses ==
  { [ok |-> FALSE, controllers |-> {}],
    [ok |-> TRUE,  controllers |-> {}],
    [ok |-> TRUE,  controllers |-> {Ctl(<<"1", "0", "0">>, "ML_APP")}] }

----------------------------------------------------------------------------
\* The store document: one field per logical key of KV (a family of keys
\* such as member:<cid> is a function from the key's argument).
EmptyDoc ==
  [ watchlist    |-> None,
    member       |-> [c \in CanonCids |-> None],
    online_state |-> None,
    job          |-> None,
    partial      |-> None,     \* audit:partial:visiting
    partial_local |-> None,    \* audit:partial:local
    qauto        |-> [k \in QKeys |-> None],
    last_cleanup |-> None ]

\* { ...remote, ...local }: a key present in local keeps local's value.
ShallowMerge(rem, loc) ==
  [ watchlist    |-> IF loc.watchlist # None THEN loc.watchlist ELSE rem.watchlist,
    member       |-> [c \in CanonCids |->
                        IF loc.member[c] # None THEN loc.member[c] ELSE rem.member[c]],
    online_state |-> IF loc.online_state # None THEN loc.online_state ELSE rem.online_state,
    job          |-> IF loc.job # None THEN loc.job ELSE rem.job,
    partial      |-> IF loc.partial # None THEN loc.partial ELSE rem.partial,
    partial_local |-> IF loc.partial_local # None THEN loc.partial_local
                      ELSE rem.partial_local,
    qauto        |-> [k \in QKeys |->
                        IF loc.qauto[k] # None THEN loc.qauto[k] ELSE rem.qauto[k]],
    last_cleanup |-> IF loc.last_cleanup # None THEN loc.last_cleanup ELSE rem.last_cleanup ]

\* storeGet(key, fb) on the value o of one key
storeGet(o, fb) == IF o = None THEN fb ELSE The(o)

----------------------------------------------------------------------------
\* Array helpers of addToWatchlist.

\* new Set(list): the distinct elements in order of first occurrence
RECURSIVE SetOf(_)
SetOf(s) ==
  IF s = <<>> THEN <<>>
  ELSE LET r == SetOf(SubSeq(s, 1, Len(s) - 1))
           x == s[Len(s)]
       IN  IF x \in Range(r) THEN r ELSE Append(r, x)

\* one step of sort((a,b)=>a-b): x placed before the first larger element
InsertNum(x, s) ==
  LET k == Cardinality({j \in 1..Len(s) : s[j] <= x})
  IN  SubSeq(s, 1, k) \o <<x>> \o SubSeq(s, k + 1, Len(s))

\* arr.sort((a,b)=>a-b)
RECURSIVE SortNum(_)
SortNum(s) ==
  IF s = <<>> THEN <<>>
  ELSE InsertNum(s[Len(s)], SortNum(SubSeq(s, 1, Len(s) - 1)))

\* the same without the sort
SortedCids_Unsorted(listSet) ==
  [k \in 1..Len(listSet) |-> String(Number(listSet[k]))]

\* Array.from(listSet).map(Number).sort((a,b)=>a-b).map(String)
SortedCids(listSet) ==
  LET nums == SortNum([k \in 1..Len(listSet) |-> Number(listSet[k])])
  IN  [k \in 1..Len(nums) |-> String(nums[k])]

----------------------------------------------------------------------------
VARIABLES
  remote,          \* the store file at GitHub: [doc, sha]
  GH_STORE,        \* per isolate: the in-memory document, None when null
  GH_STORE_SHA,    \* per isolate: last observed sha, 0 when null
  GH_STORE_DIRTY,  \* per isolate
  subreqCount,     \* per isolate
  inv,             \* per isolate: the invocation being served, or the last one
  clock,           \* index of the current instant
  nInv,            \* invocations started so far
  nFaults,         \* failed requests so far
  lastDone,        \* summary of the invocation that completed last
  call,            \* a single function under examination: its inputs and result
  ui               \* the page open in the browser: its script's variables and DOM

vars == << remote, GH_STORE, GH_STORE_SHA, GH_STORE_DIRTY, subreqCount,
           inv, clock, nInv, nFaults, lastDone, call, ui >>

\* ts()
ts == Instants[clock].epoch

\* no function is under examination
NoCall == [fn |-> "none"]

\* no page is open
NoUi == [page |-> "none"]

\* kind, canonical CID, status and resulting persisted watchlist of a request
NoDone == [kind |-> "none", cid |-> None, status |-> 0, wl |-> None]

IdleInv ==
  [ kind   |-> "none",   \* POST, DELETE, GET (fetch) or SCHED (scheduled)
    pc     |-> "idle",   \* idle, put1, refetch, put2, done
    phase  |-> "tail",   \* the storeFlush in progress: the handler's or the finally block's
    arg    |-> NoCid,    \* the request's cid
    status |-> 0,        \* response status; for SCHED 1 = resolved, 2 = rejected
    puts   |-> 0,        \* store PUTs issued by this invocation
    pre    |-> None,     \* the document this invocation started from
    conc   |-> FALSE,    \* another invocation was in flight during this one
    wrote  |-> FALSE,    \* this invocation called kvPutJSON(KV.WATCHLIST, ...)
    feed   |-> None,     \* SCHED: the feed answer runPresence got, when it was called
    error  |-> "",       \* the error member of the JSON response body ("" when it has none)
    scope  |-> "",       \* GET /api/audit/<scope>: the scope of the path
    body   |-> None,     \* GET /api/audit/<scope>: the JSON response body
    headers |-> {} ]     \* the response headers

Running(j) == inv[j].pc \notin {"idle", "done"}

Init ==
  /\ remote = [doc |-> EmptyDoc, sha |-> 1]
  /\ GH_STORE = [i \in Isolates |-> None]
  /\ GH_STORE_SHA = [i \in Isolates |-> 0]
  /\ GH_STORE_DIRTY = [i \in Isolates |-> FALSE]
  /\ subreqCount = [i \in Isolates |-> 0]
  /\ inv = [i \in Isolates |-> IdleInv]
  /\ clock = 1
  /\ nInv = 0
  /\ nFaults = 0
  /\ lastDone = NoDone
  /\ call = NoCall
  /\ ui = NoUi

----------------------------------------------------------------------------
\* The module-level state of isolate i as one value; err marks a thrown
\* exception.
Iso(i) ==
  [ store |-> GH_STORE[i], sha |-> GH_STORE_SHA[i], dirty |-> GH_STORE_DIRTY[i],
    subreq |-> subreqCount[i], err |-> FALSE ]

\* resetBudgets()
resetBudgets(st) == [st EXCEPT !.subreq = 0]

\* storeLoad(env); getOk is the outcome of ghGet
storeLoad(st, getOk) ==
  IF st.store # None THEN st
  ELSE IF st.subreq >= SUBREQ_BUDGET_PER_TICK THEN [st EXCEPT !.err = TRUE]
  ELSE IF getOk
       THEN [st EXCEPT !.store = Some(remote.doc), !.sha = remote.sha,
                       !.subreq = @ + 1]
       ELSE [st EXCEPT !.subreq = @ + 1, !.err = TRUE]

\* storeSet(key, val) / storeDel(key), as the new document
storeSet(st, doc) == [st EXCEPT !.store = Some(doc), !.dirty = TRUE]

\* the cached_at of an entry that has none, or one that is not a number
Absent == -1

\* cacheGet on the value j of the key; None is null
cacheGet(j, maxAgeSec, now) ==
  IF j = None THEN None
  ELSE LET t == IF The(j).cached_at # Absent THEN Some(The(j).cached_at) ELSE None
       IN  IF maxAgeSec = 0 THEN j
           ELSE IF t = None \/ The(t) = 0 THEN None
           ELSE IF now - The(t) > maxAgeSec THEN None
           ELSE j

\* isValidMember that caches the answer and returns true
isValidMember_AlwaysTrue(st, cid, fetchOk) ==
  LET c == cacheGet(The(st.store).member[cid], TTL_MEMBER_7D, ts)
  IN  IF c # None THEN [st |-> st, ok |-> TRUE]
      ELSE LET sent == st.subreq < SUBREQ_BUDGET_PER_TICK
               ok == sent /\ fetchOk /\ cid \in Members
               s1 == [st EXCEPT !.subreq = IF sent THEN @ + 1 ELSE @]
           IN  [ st |-> [s1 EXCEPT
                           !.store = Some([The(st.store) EXCEPT
                              !.member[cid] = Some([ok |-> ok, cached_at |-> ts])]),
                           !.dirty = TRUE],
                 ok |-> TRUE ]

\* isValidMember(env, cid); fetchOk is whether the lookup got an answer
isValidMember(st, cid, fetchOk) ==
  LET c == cacheGet(The(st.store).member[cid], TTL_MEMBER_7D, ts)
  IN  IF c # None THEN [st |-> st, ok |-> The(c).ok]
      ELSE LET sent == st.subreq < SUBREQ_BUDGET_PER_TICK   \* trackedFetch
               ok == sent /\ fetchOk /\ cid \in Members     \* r.status === 200
               s1 == [st EXCEPT !.subreq = IF sent THEN @ + 1 ELSE @]
           IN  [ st |-> storeSet(s1, [The(st.store) EXCEPT
                          !.member[cid] = Some([ok |-> ok, cached_at |-> ts])]),
                 ok |-> ok ]

\* whether isValidMember sends the lookup
MemberMiss(st, cid) == cacheGet(The(st.store).member[cid], TTL_MEMBER_7D, ts) = None

\* a ttlMap that gives every prefix 24 h
maxAgeFor_Day(prefix) == TTL_RATING_24H

\* ttlMap of maybeCleanupStore with its default for other keys
maxAgeFor(prefix) ==
  CASE prefix = "rating:"         -> TTL_RATING_24H
    [] prefix = "division:"       -> TTL_RATING_24H
    [] prefix = "member:"         -> TTL_MEMBER_7D
    [] prefix = "membermeta:"     -> TTL_RATING_24H
    [] prefix = "audit:visiting:" -> TTL_RATING_24H
    [] prefix = "audit:local:"    -> TTL_RATING_24H
    [] prefix = "cooldown:"       -> 24 * 60 * 60
    [] OTHER                      -> TTL_RATING_24H

\* a sweep that drops an entry as soon as it is older than its TTL
SweepDeletes_OnceTTL(prefix, cached_at, expiresAt, now) ==
  \/ cached_at # Absent /\ now - cached_at > maxAgeFor(prefix)
  \/ expiresAt # Absent /\ expiresAt < now

\* whether the sweep pushes the key of an entry onto keysToDelete; Absent
\* stands for a field that is missing or not a number
SweepDeletes(prefix, cached_at, expiresAt, now) ==
  \/ cached_at # Absent /\ now - cached_at > maxAgeFor(prefix) * 2
  \/ expiresAt # Absent /\ expiresAt < now

\* a reading of entry[f] that takes any time stamp of the entry for its
\* cached_at
NumberOf_AnyStamp(v, f) ==
  IF f \in DOMAIN v THEN v[f]
  ELSE IF f = "cached_at" /\ "at" \in DOMAIN v THEN v["at"]
  ELSE Absent

\* typeof entry[f] === 'number' ? entry[f] : Absent, for an entry that
\* is a plain object
NumberOf(v, f) == IF f \in DOMAIN v THEN v[f] ELSE Absent

\* the value o of a key (None: the key is absent) after the sweep, when
\* the value is a plain object
SweepObject(prefix, o, now) ==
  IF o # None /\ SweepDeletes(prefix, NumberOf(The(o), "cached_at"),
                              NumberOf(The(o), "expiresAt"), now)
  THEN None ELSE o

\* the same when the value is an array or a map keyed by CIDs, which has
\* neither a cached_at nor an expiresAt property
SweepList(prefix, o, now) ==
  IF o # None /\ SweepDeletes(prefix, Absent, Absent, now) THEN None ELSE o

\* maybeCleanupStore(env), after its storeLoad
maybeCleanupStore(st) ==
  LET doc == The(st.store)
      lastCleanup == storeGet(doc.last_cleanup, 0)
      now == ts
  IN  IF now - lastCleanup < STORE_CLEANUP_INTERVAL THEN st
      ELSE storeSet(st,
             [ watchlist    |-> SweepList("watchlist", doc.watchlist, now),
               member       |-> [c \in CanonCids |->
                                   SweepObject("member:", doc.member[c], now)],
               online_state |-> SweepList("online_state", doc.online_state, now),
               job          |-> SweepObject("audit:job", doc.job, now),
               partial      |-> SweepList("audit:partial:visiting", doc.partial, now),
               partial_local |-> SweepList("audit:partial:local", doc.partial_local, now),
               qauto        |-> [k \in QKeys |->
                                   SweepObject("quarter:auto:", doc.qauto[k], now)],
               last_cleanup |-> Some(now) ])

\* callsign.endsWith("_ATIS")
EndsWithATIS(callsign) == callsign \in {"ML_ATIS"}

\* getOnlineMap(): cid -> info for the controllers of the feed
getOnlineMap(st, feed) ==
  LET sent == st.subreq < SUBREQ_BUDGET_PER_TICK    \* trackedFetch
      ok == sent /\ feed.ok
      listed(c) == {x \in feed.controllers : x.cid = c /\ ~EndsWithATIS(x.callsign)}
  IN  [ st  |-> [st EXCEPT !.subreq = IF sent THEN @ + 1 ELSE @],
        map |-> [c \in FeedCids |->
                   IF ok /\ listed(c) # {}
                   THEN Some([callsign |-> (CHOOSE x \in listed(c) : TRUE).callsign,
                              last_seen |-> ts])
                   ELSE None] ]

\* runPresence that forgets the last-known info of a controller going offline
runPresence_DropsInfo(st, feed) ==
  LET doc == The(st.store)
      state == storeGet(doc.online_state, [c \in FeedCids |-> None])
      om == getOnlineMap(st, feed)
      presence == om.map
      wasOnline(c) == state[c] # None /\ The(state[c]).online
      nowOnline(c) == presence[c] # None
      new == [c \in FeedCids |->
                IF nowOnline(c) /\ ~wasOnline(c)
                THEN Some([online |-> TRUE, last_change |-> ts,
                           last_info |-> presence[c]])
                ELSE IF ~nowOnline(c) /\ wasOnline(c)
                THEN Some([online |-> FALSE, last_change |-> ts,
                           last_info |-> None])
                ELSE state[c]]
      changed == \E c \in FeedCids : nowOnline(c) # wasOnline(c)
  IN  IF changed THEN storeSet(om.st, [doc EXCEPT !.online_state = Some(new)])
      ELSE om.st

\* runPresence(env)
runPresence(st, feed) ==
  LET doc == The(st.store)
      state == storeGet(doc.online_state, [c \in FeedCids |-> None])
      om == getOnlineMap(st, feed)
      presence == om.map
      wasOnline(c) == state[c] # None /\ The(state[c]).online
      nowOnline(c) == presence[c] # None
      new == [c \in FeedCids |->
                IF nowOnline(c) /\ ~wasOnline(c)
                THEN Some([online |-> TRUE, last_change |-> ts,
                           last_info |-> presence[c]])
                ELSE IF ~nowOnline(c) /\ wasOnline(c)
                THEN Some([online |-> FALSE, last_change |-> ts,
                           last_info |-> The(state[c]).last_info])
                ELSE state[c]]
      changed == \E c \in FeedCids : nowOnline(c) # wasOnline(c)
  IN  IF changed THEN storeSet(om.st, [doc EXCEPT !.online_state = Some(new)])
      ELSE om.st

\* a tickAudit that takes the first CID off the job's list
tickAudit_DropsCid(st) ==
  LET doc == The(st.store)
  IN  IF doc.job = None \/ Len(The(doc.job).cids) = 0 THEN st
      ELSE storeSet(st, [doc EXCEPT !.job = Some([The(@) EXCEPT !.cids = Tail(@)])])

\* tickAudit(env): the body after the guard is a placeholder
tickAudit(st) == st

\* a quarter start that holds through the whole first day
isQuarterStart_AnyHour(now) ==
  (now.m = 0 \/ now.m = 3 \/ now.m = 6 \/ now.m = 9) /\ now.d = 1

\* isQuarterStart of maybeStartQuarterlyVisiting
isQuarterStart(now) ==
  (now.m = 0 \/ now.m = 3 \/ now.m = 6 \/ now.m = 9) /\ now.d = 1 /\ now.h = 0

\* the key under which maybeStartQuarterlyVisiting writes at the UTC date
\* now, done telling whether that key already holds a value; None when it
\* returns without a write
QuarterWrite(now, done) ==
  IF ~isQuarterStart(now) THEN None
  ELSE IF done THEN None
  ELSE Some(quarterKeyForPrev(now))

\* maybeStartQuarterlyVisiting(env)
maybeStartQuarterlyVisiting(st) ==
  LET now == Instants[clock]
      doc == The(st.store)
      w == QuarterWrite(now, doc.qauto[quarterKeyForPrev(now)] # None)
  IN  IF w = None THEN st
      ELSE storeSet(st, [doc EXCEPT !.qauto[The(w)] = Some([done |-> TRUE, at |-> ts])])

\* job && job.cids?.length && job.cursor < job.total
ActiveJob(doc) ==
  /\ doc.job # None
  /\ Len(The(doc.job).cids) > 0
  /\ The(doc.job).cursor < The(doc.job).total

----------------------------------------------------------------------------
\* Bookkeeping shared by the actions.

\* Isolates are interchangeable: they are numbered in order of first use.
CanStart(i) ==
  /\ ~Running(i)
  /\ nInv < MaxInv
  /\ \A j \in Isolates : j < i => nInv >= j

NewInv(i, kind, arg) ==
  [ IdleInv EXCEPT !.kind = kind, !.arg = arg, !.pre = GH_STORE[i],
      !.conc = \E j \in Isolates \ {i} : Running(j) ]

\* The isolate's variables and its invocation record after a step.  When an
\* invocation starts, the invocations in flight stop being "in sequence"
\* with their predecessors, and the records of completed invocations are
\* dropped (lastDone keeps the summary of the last one).
Commit(i, st, rec, starting) ==
  /\ GH_STORE' = [GH_STORE EXCEPT ![i] = st.store]
  /\ GH_STORE_SHA' = [GH_STORE_SHA EXCEPT ![i] = st.sha]
  /\ GH_STORE_DIRTY' = [GH_STORE_DIRTY EXCEPT ![i] = st.dirty]
  /\ subreqCount' = [subreqCount EXCEPT ![i] = st.subreq]
  /\ inv' = [j \in Isolates |->
               IF j = i THEN rec
               ELSE IF starting /\ Running(j)
                    THEN [inv[j] EXCEPT !.conc = TRUE]
               ELSE IF starting THEN IdleInv
               ELSE inv[j]]
  /\ nInv' = IF starting THEN nInv + 1 ELSE nInv
  /\ lastDone' = IF rec.pc = "done"
                 THEN [kind |-> rec.kind, cid |-> canonicalCID(rec.arg),
                       status |-> rec.status, wl |-> remote'.doc.watchlist]
                 ELSE lastDone
  /\ call' = call
  /\ ui' = ui

\* finally { try { await storeFlush(...) } catch {} } of fetch and of
\* handleScheduled; storeFlush returns at once when the document is not dirty.
TailFlush(st, rec) ==
  IF st.dirty THEN [rec EXCEPT !.pc = "put1", !.phase = "tail"]
  ELSE [rec EXCEPT !.pc = "done"]

\* env.ALLOWED_ORIGIN of the deployment (None: not set)
ALLOWED_ORIGIN == Some("https://vatpac.example")

Header(name, value) == [name |-> name, value |-> value]

\* jsonResponse(data, status, env): error is data.error
jsonResponse(rec, error, status) ==
  LET origin == IF ALLOWED_ORIGIN # None THEN The(ALLOWED_ORIGIN)
                ELSE "https://realleviticus.github.io"
  IN  [rec EXCEPT !.status = status, !.error = error,
        !.headers = { Header("Content-Type", "application/json"),
                      Header("Access-Control-Allow-Origin", origin),
                      Header("Access-Control-Allow-Methods", "GET, POST, DELETE, OPTIONS"),
                      Header("Access-Control-Allow-Headers", "Content-Type") }]

\* handleCORS without the Access-Control-Max-Age header
handleCORS_NoMaxAge(rec) ==
  LET origin == IF ALLOWED_ORIGIN # None THEN The(ALLOWED_ORIGIN)
                ELSE "https://realleviticus.github.io"
  IN  [rec EXCEPT !.status = 200,
        !.headers = { Header("Access-Control-Allow-Origin", origin),
                      Header("Access-Control-Allow-Methods", "GET, POST, DELETE, OPTIONS"),
                      Header("Access-Control-Allow-Headers", "Content-Type") }]

\* handleCORS(env): new Response(null, { headers }) has status 200
handleCORS(rec) ==
  LET origin == IF ALLOWED_ORIGIN # None THEN The(ALLOWED_ORIGIN)
                ELSE "https://realleviticus.github.io"
  IN  [rec EXCEPT !.status = 200,
        !.headers = { Header("Access-Control-Allow-Origin", origin),
                      Header("Access-Control-Allow-Methods", "GET, POST, DELETE, OPTIONS"),
                      Header("Access-Control-Allow-Headers", "Content-Type"),
                      Header("Access-Control-Max-Age", "86400") }]

\* a handler's own await storeFlush(...), then its 200 response
HandlerFlush(st, rec) ==
  IF st.dirty THEN [rec EXCEPT !.pc = "put1", !.phase = "handler"]
  ELSE TailFlush(st, jsonResponse(rec, "", 200))

\* the handler ended with jsonResponse({ error }, status); with status 500
\* it is the catch of handleAPI and error is the exception's message
Respond(i, st, rec, status, error) ==
  Commit(i, [st EXCEPT !.err = FALSE],
         TailFlush(st, jsonResponse(rec, error, status)), TRUE)

\* handleScheduled has ended: its promise resolved (1) or rejected (2)
Settle(i, st, rec, status) ==
  Commit(i, [st EXCEPT !.err = FALSE],
         TailFlush(st, [rec EXCEPT !.status = status]), TRUE)

\* the failed requests an entry step uses
UseFaults(n) ==
  /\ nFaults + n <= MaxFaults
  /\ nFaults' = nFaults + n

LoadFaults(i, getOk) == IF GH_STORE[i] = None /\ ~getOk THEN 1 ELSE 0

\* getOk is only a choice when storeLoad sends its GET
LoadChoice(i, getOk) == GH_STORE[i] # None => getOk

----------------------------------------------------------------------------
\* POST /api/watchlist: fetch -> handleAPI -> addToWatchlist, up to the first
\* store PUT.
PostWatchlist(i, body, getOk, fetchOk) ==
  /\ CanStart(i)
  /\ UNCHANGED << remote, clock >>
  /\ LET s0  == resetBudgets(Iso(i))
         r0  == NewInv(i, "POST", body)
         cid == canonicalCID(body)
     IN  IF canonicalCIDThrows(body)
         THEN /\ getOk /\ fetchOk /\ UseFaults(0)
              /\ Respond(i, s0, r0, 500, "(s || \"\").replace is not a function")
         ELSE IF cid = None
         THEN /\ getOk /\ fetchOk /\ UseFaults(0)
              /\ Respond(i, s0, r0, 400, "Invalid CID format")
         ELSE
           LET ld == storeLoad(s0, getOk)
               r1 == [r0 EXCEPT !.pre = ld.store]
           IN  /\ LoadChoice(i, getOk)
               /\ IF ld.err
                  THEN /\ fetchOk /\ UseFaults(LoadFaults(i, getOk))
                       /\ Respond(i, ld, r1, 500, "GitHub GET failed")
                  ELSE
                    LET vm   == isValidMember(ld, The(cid), fetchOk)
                        list == storeGet(The(vm.st.store).watchlist, <<>>)
                        listSet == SetOf(list)
                        next == SortedCids(Append(listSet, The(cid)))
                        put  == storeSet(vm.st, [The(vm.st.store) EXCEPT
                                                   !.watchlist = Some(next)])
                    IN  /\ ~MemberMiss(ld, The(cid)) => fetchOk
                        \* for an unknown CID a failed lookup and a 404 read the same
                        /\ The(cid) \notin Members => fetchOk
                        /\ UseFaults(LoadFaults(i, getOk) + IF fetchOk THEN 0 ELSE 1)
                        /\ IF ~vm.ok THEN Respond(i, vm.st, r1, 404, "CID does not exist on VATSIM")
                           ELSE IF The(cid) \in Range(listSet)
                           THEN Respond(i, vm.st, r1, 409, "Already on watchlist")
                           ELSE Commit(i, put,
                                       HandlerFlush(put, [r1 EXCEPT !.wrote = TRUE]), TRUE)

\* DELETE /api/watchlist/:cid: fetch -> handleAPI -> removeFromWatchlist
DeleteWatchlist(i, path, getOk) ==
  /\ CanStart(i)
  /\ UNCHANGED << remote, clock >>
  /\ LoadChoice(i, getOk)
  /\ UseFaults(LoadFaults(i, getOk))
  /\ LET s0 == resetBudgets(Iso(i))
         ld == storeLoad(s0, getOk)
         r1 == [NewInv(i, "DELETE", StrCid(path)) EXCEPT !.pre = ld.store]
     IN  IF ld.err THEN Respond(i, ld, r1, 500, "GitHub GET failed")
         ELSE LET list == storeGet(The(ld.store).watchlist, <<>>)
                  next == SelectSeq(list, LAMBDA x : x # path)
                  put  == storeSet(ld, [The(ld.store) EXCEPT !.watchlist = Some(next)])
              IN  IF Len(next) = Len(list)
                  THEN Respond(i, ld, r1, 404, "CID not found on watchlist")
                  ELSE Commit(i, put, HandlerFlush(put, [r1 EXCEPT !.wrote = TRUE]), TRUE)

\* GET /api/watchlist: fetch -> handleAPI -> getWatchlist.  The handler reads
\* the watchlist, the feed and the rating cache and writes nothing.
GetWatchlist(i, getOk, feed) ==
  /\ CanStart(i)
  /\ UNCHANGED << remote, clock >>
  /\ LoadChoice(i, getOk)
  /\ UseFaults(LoadFaults(i, getOk))
  /\ LET s0 == resetBudgets(Iso(i))
         ld == storeLoad(s0, getOk)
         r1 == [NewInv(i, "GET", NoCid) EXCEPT !.pre = ld.store]
     IN  IF ld.err
         THEN /\ feed.ok /\ feed.controllers = {}
              /\ Respond(i, ld, r1, 500, "GitHub GET failed")
         ELSE Respond(i, getOnlineMap(ld, feed).st, r1, 200, "")

\* scheduled -> handleScheduled, up to the first store PUT.  late: more than
\* 20 s have passed since entry when the presence check is reached (the
\* retries of the store GET can sleep that long).
Scheduled(i, getOk, late, feed) ==
  /\ CanStart(i)
  /\ UNCHANGED << remote, clock >>
  /\ LoadChoice(i, getOk)
  /\ late => GH_STORE[i] = None /\ getOk
  /\ UseFaults(LoadFaults(i, getOk))
  /\ LET s0 == resetBudgets(Iso(i))
         ld == storeLoad(s0, getOk)
         r1 == [NewInv(i, "SCHED", NoCid) EXCEPT !.pre = ld.store]
         presenceRuns == ~ActiveJob(The(ld.store)) /\ ~late
     IN  IF ld.err
         THEN feed.ok /\ feed.controllers = {} /\ Settle(i, ld, r1, 2)
         ELSE LET s1 == tickAudit(maybeCleanupStore(ld))
                  s2 == IF ~ActiveJob(The(s1.store)) /\ ~late
                        THEN runPresence(s1, feed) ELSE s1
                  s3 == maybeStartQuarterlyVisiting(s2)
              IN  /\ ~presenceRuns => feed.ok /\ feed.controllers = {}
                  /\ Settle(i, s3, [r1 EXCEPT !.feed = IF presenceRuns THEN Some(feed)
                                                         ELSE None], 1)

----------------------------------------------------------------------------
\* storeFlush, one action per request to the store.

\* the flush has ended: ok, or it threw
FlushEnd(st, rec, ok, error) ==
  IF rec.phase = "handler"
  THEN TailFlush(st, IF ok THEN jsonResponse(rec, "", 200)
                     ELSE jsonResponse(rec, error, 500))
  ELSE [rec EXCEPT !.pc = "done"]

\* ghPut of the document with the last observed sha.  out is the store's
\* answer: "ok" (the sha matched), "409" (it did not) or "fail".
PutStep(i, out, first) ==
  LET st  == Iso(i)
      rec == inv[i]
  IN
  /\ UNCHANGED clock
  /\ IF st.subreq >= SUBREQ_BUDGET_PER_TICK
     THEN /\ out = "fail"
          /\ UNCHANGED << remote, nFaults >>
          /\ Commit(i, st, FlushEnd(st, rec, FALSE, "subrequest budget"), FALSE)
     ELSE
       LET s1 == [st EXCEPT !.subreq = @ + 1]
           r1 == [rec EXCEPT !.puts = @ + 1]
       IN  CASE out = "ok" ->
                  /\ st.sha = remote.sha
                  /\ remote' = [doc |-> The(st.store), sha |-> remote.sha + 1]
                  /\ UNCHANGED nFaults
                  /\ LET s2 == [s1 EXCEPT !.sha = remote.sha + 1, !.dirty = FALSE]
                     IN  Commit(i, s2, FlushEnd(s2, r1, TRUE, ""), FALSE)
             [] out = "409" ->
                  /\ st.sha # remote.sha
                  /\ UNCHANGED << remote, nFaults >>
                  /\ IF first
                     THEN Commit(i, s1, [r1 EXCEPT !.pc = "refetch"], FALSE)
                     ELSE Commit(i, s1, FlushEnd(s1, r1, FALSE, "GitHub PUT failed 409"), FALSE)
             [] out = "fail" ->
                  /\ UseFaults(1)
                  /\ UNCHANGED remote
                  /\ Commit(i, s1, FlushEnd(s1, r1, FALSE, "GitHub PUT failed 500"), FALSE)

Put1(i, out) ==
  /\ inv[i].pc = "put1"
  /\ PutStep(i, out, TRUE)

\* the re-fetch that merges but keeps the sha observed before
Refetch_KeepsSha(i, getOk) ==
  /\ inv[i].pc = "refetch"
  /\ UNCHANGED << remote, clock >>
  /\ LET st == Iso(i)
         rec == inv[i]
     IN  IF st.subreq >= SUBREQ_BUDGET_PER_TICK
         THEN /\ ~getOk
              /\ UNCHANGED nFaults
              /\ Commit(i, st, FlushEnd(st, rec, FALSE, "subrequest budget"), FALSE)
         ELSE IF getOk
         THEN /\ UNCHANGED nFaults
              /\ Commit(i, [st EXCEPT !.subreq = @ + 1,
                                      !.store = Some(ShallowMerge(remote.doc, The(@)))],
                        [rec EXCEPT !.pc = "put2"], FALSE)
         ELSE /\ UseFaults(1)
              /\ LET s1 == [st EXCEPT !.subreq = @ + 1]
                 IN  Commit(i, s1, FlushEnd(s1, rec, FALSE, "GitHub PUT failed 409"), FALSE)

\* after a 409: ghGet, merge and take the remote sha
Refetch(i, getOk) ==
  /\ inv[i].pc = "refetch"
  /\ UNCHANGED << remote, clock >>
  /\ LET st == Iso(i)
         rec == inv[i]
     IN  IF st.subreq >= SUBREQ_BUDGET_PER_TICK
         THEN /\ ~getOk
              /\ UNCHANGED nFaults
              /\ Commit(i, st, FlushEnd(st, rec, FALSE, "subrequest budget"), FALSE)
         ELSE IF getOk
         THEN /\ UNCHANGED nFaults
              /\ Commit(i, [st EXCEPT !.subreq = @ + 1,
                                      !.store = Some(ShallowMerge(remote.doc, The(@))),
                                      !.sha = remote.sha],
                        [rec EXCEPT !.pc = "put2"], FALSE)
         ELSE /\ UseFaults(1)
              /\ LET s1 == [st EXCEPT !.subreq = @ + 1]
                 IN  Commit(i, s1, FlushEnd(s1, rec, FALSE, "GitHub PUT failed 409"), FALSE)

Put2(i, out) ==
  /\ inv[i].pc = "put2"
  /\ PutStep(i, out, FALSE)

Outcomes == {"ok", "409", "fail"}

\* time passes
Advance ==
  /\ clock < Len(Instants)
  /\ clock' = clock + 1
  /\ UNCHANGED << remote, GH_STORE, GH_STORE_SHA, GH_STORE_DIRTY, subreqCount,
                  inv, nInv, nFaults, lastDone, call, ui >>

----------------------------------------------------------------------------
Flush(i) ==
  \/ \E o \in Outcomes : Put1(i, o)
  \/ \E g \in BOOLEAN : Refetch(i, g)
  \/ \E o \in Outcomes : Put2(i, o)

\* the watchlist API
NextApi ==
  \/ \E i \in Isolates, b \in PostBodies, g \in BOOLEAN, a \in BOOLEAN :
       PostWatchlist(i, b, g, a)
  \/ \E i \in Isolates, p \in DeletePaths, g \in BOOLEAN : DeleteWatchlist(i, p, g)
  \/ \E i \in Isolates, g \in BOOLEAN, f \in FeedResponses : GetWatchlist(i, g, f)
  \/ \E i \in Isolates : Flush(i)

SpecApi == Init /\ [][NextApi]_vars

----------------------------------------------------------------------------
\* The scheduled tick, started from a persisted document with a watchlist
\* and possibly an audit job that is under way.
JobCids(n) == [k \in 1..n |-> String(1000000 + k)]

SeedJob ==
  [ scope |-> "visiting", cids |-> JobCids(SeedTotal), cursor |-> 0,
    total |-> SeedTotal, created_at |-> Instants[1].epoch ]

SeedWatchlist == << <<"1", "0", "0">>, <<"2", "0", "0">> >>

SeedDocs ==
  { [EmptyDoc EXCEPT !.watchlist = Some(SeedWatchlist)],
    [EmptyDoc EXCEPT !.watchlist = Some(SeedWatchlist), !.job = Some(SeedJob)] }

InitSched ==
  /\ remote \in {[doc |-> d, sha |-> 1] : d \in SeedDocs}
  /\ GH_STORE = [i \in Isolates |-> None]
  /\ GH_STORE_SHA = [i \in Isolates |-> 0]
  /\ GH_STORE_DIRTY = [i \in Isolates |-> FALSE]
  /\ subreqCount = [i \in Isolates |-> 0]
  /\ inv = [i \in Isolates |-> IdleInv]
  /\ clock = 1
  /\ nInv = 0
  /\ nFaults = 0
  /\ lastDone = NoDone
  /\ call = NoCall
  /\ ui = NoUi

NextSched ==
  \/ \E i \in Isolates, g \in BOOLEAN, l \in BOOLEAN, f \in FeedResponses :
       Scheduled(i, g, l, f)
  \/ \E i \in Isolates : Flush(i)
  \/ Advance

SpecSched == InitSched /\ [][NextSched]_vars

----------------------------------------------------------------------------
\* Properties.

Done(i) == inv[i].pc = "done"

\* the canonical CID of a POST body that canonicalCID accepts
CidOf(i) == The(canonicalCID(inv[i].arg))

Watchlist(doc) == storeGet(doc.watchlist, <<>>)

\* what the member lookup told a POST: the cache entry it read or wrote
LookupOk(i) == The(The(GH_STORE[i]).member[CidOf(i)]).ok

\* the CID of a POST was on the watchlist the invocation read
OnList(i) == CidOf(i) \in Range(Watchlist(The(inv[i].pre)))

AllDocs == {remote.doc} \cup UNION {GH_STORE[i] : i \in Isolates}

\* scheduled ticks that have run to completion (SpecSched)
TicksCompleted == nInv - Cardinality({i \in Isolates : Running(i)})

\* C1: two concurrent POST /api/watchlist invocations that loaded the same
\* document and add different valid CIDs both return 200, and once both have
\* flushed the persisted watchlist contains both CIDs.
C1_ConcurrentAddsBothPersist ==
  \A i, j \in Isolates :
    ( /\ i # j
      /\ nInv = 2 /\ nFaults = 0
      /\ inv[i].kind = "POST" /\ inv[j].kind = "POST"
      /\ Done(i) /\ Done(j)
      /\ inv[i].conc /\ inv[j].conc
      /\ inv[i].pre # None /\ inv[i].pre = inv[j].pre
      /\ canonicalCID(inv[i].arg) # None /\ canonicalCID(inv[j].arg) # None
      /\ CidOf(i) # CidOf(j)
      /\ {CidOf(i), CidOf(j)} \subseteq Members
      /\ {CidOf(i), CidOf(j)} \cap Range(Watchlist(The(inv[i].pre))) = {} )
    => /\ inv[i].status = 200 /\ inv[j].status = 200
       /\ {CidOf(i), CidOf(j)} \subseteq Range(Watchlist(remote.doc))


\* C2: from a persisted job with 50 CIDs and cursor 0, after two scheduled
\* ticks the cursor has reached 50 and audit:job has been cleared.
C2_TwoTicksClearJob ==
  (nFaults = 0 /\ TicksCompleted >= 2) => remote.doc.job = None

IsCanonicalForm(c) ==
  /\ Len(c) >= 3 /\ Len(c) <= 10
  /\ \A k \in 1..Len(c) : IsDigit(c[k])
  /\ c[1] # "0"

C4_WatchlistCanonical ==
  \A d \in AllDocs : \A c \in Range(Watchlist(d)) : IsCanonicalForm(c)

\* C5: the stored watchlist has no duplicate CID and is in strictly
\* ascending numeric order.
C5_WatchlistSortedSet ==
  \A d \in AllDocs :
    LET wl == Watchlist(d)
    IN  /\ \A a, b \in 1..Len(wl) : a < b => Number(wl[a]) < Number(wl[b])
        /\ \A a, b \in 1..Len(wl) : a # b => wl[a] # wl[b]

\* a CID was added below one already listed
C5_Witness ==
  /\ lastDone.kind = "POST" /\ lastDone.status = 200
  /\ lastDone.cid = Some(<<"1", "0", "0">>)
  /\ Watchlist(remote.doc) = << <<"1", "0", "0">>, <<"2", "0", "0">> >>

\* the invocation of isolate i completes in this step, no other invocation
\* overlapped it, and lastDone is the request that was served just before it
Follows(i) ==
  /\ inv[i].pc # "done" /\ inv'[i].pc = "done"
  /\ ~inv'[i].conc
  /\ nFaults' = 0

\* C6: POST of the same valid CID twice in sequence: the second is answered
\* 409 and leaves the watchlist as the first left it.
C6_SecondAddIs409 ==
  [][ \A i \in Isolates :
        ( /\ Follows(i) /\ inv'[i].kind = "POST"
          /\ lastDone.kind = "POST" /\ lastDone.status = 200
          /\ canonicalCID(inv'[i].arg) # None
          /\ lastDone.cid = canonicalCID(inv'[i].arg) )
        => /\ inv'[i].status = 409
           /\ remote'.doc.watchlist = lastDone.wl ]_vars

\* C7: DELETE of the same CID twice in sequence: the second is answered 404,
\* changes no key of the document and issues no store PUT.
C7_SecondDeleteIs404 ==
  [][ \A i \in Isolates :
        ( /\ Follows(i) /\ inv'[i].kind = "DELETE"
          /\ lastDone.kind = "DELETE" /\ lastDone.status = 200
          /\ lastDone.cid = canonicalCID(inv'[i].arg) )
        => /\ inv'[i].status = 404
           /\ inv'[i].puts = 0
           /\ GH_STORE'[i] = inv'[i].pre ]_vars

\* C8: a POST answered 400, 404 or 409 leaves the whole document unchanged
\* and issues no store PUT.
C8_ClientErrorNoChange ==
  \A i \in Isolates :
    (inv[i].kind = "POST" /\ Done(i) /\ inv[i].status \in {400, 404, 409}) =>
      /\ inv[i].puts = 0
      /\ GH_STORE[i] = inv[i].pre

\* C9: the tick that finds quarter:auto:2025Q1 absent (and no job) at 2025-04-01T00 sets
\* the marker, sets audit:job to a visiting job over the current watchlist
\* (cursor 0, total = len(cids)) and clears audit:partial:visiting.
Q2025Q1 == [year |-> 2025, q |-> 1]

C9_FirstTickEnqueues ==
  [][ \A i \in Isolates :
        ( /\ ~Running(i) /\ nInv' = nInv + 1 /\ inv'[i].kind = "SCHED"
          /\ inv'[i].pre # None
          /\ The(inv'[i].pre).qauto[Q2025Q1] = None
          /\ The(inv'[i].pre).job = None
          /\ The(GH_STORE'[i]).qauto[Q2025Q1] # None )
        => LET doc == The(GH_STORE'[i])
           IN  /\ doc.job # None
               /\ The(doc.job).scope = "visiting"
               /\ The(doc.job).cids = Watchlist(doc)
               /\ The(doc.job).cursor = 0
               /\ The(doc.job).total = Len(Watchlist(doc))
               /\ doc.partial = None ]_vars

\* C10: for one quarter exactly one job is enqueued: once quarter:auto:<key>
\* is persisted it is not written again, and a job is persisted with it.
C10_EnqueueOncePerQuarter ==
  [][ /\ remote'.doc.qauto[Q2025Q1] # None => remote'.doc.job # None
      /\ remote.doc.qauto[Q2025Q1] # None =>
           remote'.doc.qauto[Q2025Q1] = remote.doc.qauto[Q2025Q1] ]_vars

\* the invocation of isolate i starts in this step
Starts(i) ==
  /\ nInv' = nInv + 1
  /\ ~Running(i)
  /\ inv'[i].kind # "none"

\* it starts with no other invocation in flight
StartsAlone(i) ==
  /\ Starts(i)
  /\ \A j \in Isolates \ {i} : ~Running(j)

\* the online_state of a document, absent entries included
OnlineState(doc) == storeGet(doc.online_state, [c \in FeedCids |-> None])

\* C11: when a tick's runPresence gets the same feed answer as the runPresence
\* of the one tick completed just before it (no failed request, nothing left
\* unflushed), it leaves online_state of the document as it read it.
C11_StableFeedNoChange ==
  [][ \A i, j \in Isolates :
        ( /\ StartsAlone(i) /\ inv'[i].kind = "SCHED"
          /\ nFaults' = 0
          /\ \A k \in Isolates : ~GH_STORE_DIRTY[k]
          /\ {k \in Isolates : inv[k].pc = "done"} = {j}
          /\ inv[j].kind = "SCHED"
          /\ inv'[i].feed # None /\ inv[j].feed = inv'[i].feed )
        => The(GH_STORE'[i]).online_state = The(inv'[i].pre).online_state ]_vars

----------------------------------------------------------------------------
\* runPresence on its own: ticks of one worker instance on a document without
\* an audit job, over feeds that list two controllers, an ATIS connection and
\* a change of position.
PresenceFeeds ==
  FeedResponses \cup
  { [ok |-> TRUE, controllers |-> {Ctl(<<"1", "0", "0">>, "ML_ATIS")}],
    [ok |-> TRUE, controllers |-> {Ctl(<<"1", "0", "0">>, "ML_TWR"),
                                   Ctl(<<"2", "0", "0">>, "ML_APP")}],
    [ok |-> TRUE, controllers |-> {Ctl(<<"2", "0", "0">>, "ML_APP"),
                                   Ctl(<<"2", "0", "0">>, "ML_ATIS")}] }

InitPresence == InitSched /\ remote.doc.job = None

\* one instance: its PUT is never answered 409
NextPresence ==
  \/ \E g \in BOOLEAN, f \in PresenceFeeds : Scheduled(1, g, FALSE, f)
  \/ \E o \in Outcomes : Put1(1, o)
  \/ Advance

SpecPresence == InitPresence /\ [][NextPresence]_vars

\* the CIDs online by the feed: its controllers less the ATIS connections
NowOnline(feed) == {x.cid : x \in {y \in feed.controllers : ~EndsWithATIS(y.callsign)}}

\* the callsigns under which the feed lists a CID as a controller
Callsigns(feed, c) ==
  {x.callsign : x \in {y \in feed.controllers : y.cid = c /\ ~EndsWithATIS(y.callsign)}}

\* C12: after runPresence with a successfully fetched feed, for every CID of
\* the previous online_state or online by the feed (ATIS connections do not
\* count): the entry is online iff the CID is online by the feed; a CID that
\* came online has the feed's info as last_info; a CID that went offline
\* keeps its last_info; a CID whose status did not change keeps its entry.
C12_PresenceTransitions ==
  [][ \A i \in Isolates :
        ( /\ Starts(i) /\ inv'[i].kind = "SCHED"
          /\ inv'[i].feed # None /\ The(inv'[i].feed).ok )
        => LET feed == The(inv'[i].feed)
               old == OnlineState(The(inv'[i].pre))
               new == OnlineState(The(GH_STORE'[i]))
               was(c) == old[c] # None /\ The(old[c]).online
           IN  \A c \in FeedCids :
                 (old[c] # None \/ c \in NowOnline(feed)) =>
                   /\ new[c] # None
                   /\ The(new[c]).online <=> c \in NowOnline(feed)
                   /\ (c \in NowOnline(feed) /\ ~was(c)) =>
                        /\ The(new[c]).last_info # None
                        /\ The(The(new[c]).last_info).callsign \in Callsigns(feed, c)
                        /\ The(The(new[c]).last_info).last_seen = ts'
                   /\ (c \notin NowOnline(feed) /\ was(c)) =>
                        The(new[c]).last_info = The(old[c]).last_info
                   /\ (c \in NowOnline(feed) <=> was(c)) => new[c] = old[c] ]_vars

\* a tick saw a controller change position while another went offline
C12_Witness ==
  \E i \in Isolates :
    /\ inv[i].kind = "SCHED" /\ inv[i].pc = "done" /\ inv[i].feed # None
    /\ The(inv[i].feed).ok
    /\ LET old == OnlineState(The(inv[i].pre))
           new == OnlineState(The(GH_STORE[i]))
       IN  /\ old[<<"1", "0", "0">>] # None /\ The(old[<<"1", "0", "0">>]).online
           /\ The(old[<<"1", "0", "0">>]).last_change < ts
           /\ new[<<"1", "0", "0">>] = old[<<"1", "0", "0">>]
           /\ old[<<"2", "0", "0">>] # None /\ The(old[<<"2", "0", "0">>]).online
           /\ ~The(new[<<"2", "0", "0">>]).online
           /\ <<"1", "0", "0">> \in NowOnline(The(inv[i].feed))

----------------------------------------------------------------------------
\* Ticks on a persisted document that holds an audit job under way.
InitJob == InitSched /\ remote.doc.job # None

SpecJob == InitJob /\ [][NextSched]_vars

\* the audit job of a document is well formed
JobOk(doc) ==
  doc.job # None =>
    LET job == The(doc.job)
    IN  /\ 0 <= job.cursor /\ job.cursor <= job.total
        /\ job.total = Len(job.cids)

\* from document d to document e the job, while it exists, keeps its cids and
\* total and does not move its cursor back
JobStep(d, e) ==
  (d.job # None /\ e.job # None) =>
    /\ The(e.job).cids = The(d.job).cids
    /\ The(e.job).total = The(d.job).total
    /\ The(e.job).cursor >= The(d.job).cursor

\* C13: in the persisted document and in every instance's copy the audit
\* job (one key, so at most one job) has 0 <= cursor <= total and
\* total = len(cids); no step changes cids or total of a job that stays, or
\* decreases its cursor.
C13_JobWellFormed ==
  [][ /\ JobOk(remote.doc) /\ JobOk(remote'.doc)
      /\ JobStep(remote.doc, remote'.doc)
      /\ \A i \in Isolates :
           /\ GH_STORE'[i] # None => JobOk(The(GH_STORE'[i]))
           /\ (GH_STORE[i] # None /\ GH_STORE'[i] # None) =>
                JobStep(The(GH_STORE[i]), The(GH_STORE'[i])) ]_vars

\* a tick on a document with a job has run and its flush has persisted
C13_Witness ==
  /\ remote.doc.job # None
  /\ remote.sha > 1
  /\ \E i \in Isolates : inv[i].kind = "SCHED" /\ inv[i].pc = "done" /\ inv[i].puts > 0


----------------------------------------------------------------------------
\* Number arithmetic of getAudit.  A JavaScript Number is an IEEE-754
\* binary64: a positive value is kept as [m, e], m its 53 significand bits
\* (most significant first, m[1] = 1) and e the exponent of the last bit, so
\* that the value is m * 2^e; zero is [m |-> <<>>, e |-> 0].
SignificandBits == 53

\* binary digits after the point that a division produces before rounding
\* (enough for quotients of at least 2^-30)
FractionBits == 85

Zeros(n) == [k \in 1..n |-> 0]

\* the binary digits of an integer 0 <= n < 2^30
ToBits(n) ==
  LET L == CHOOSE l \in 0..30 : n < 2^l /\ (l = 0 \/ n >= 2^(l - 1))
  IN  [k \in 1..L |-> (n \div 2^(L - k)) % 2]

\* the integer a bit sequence denotes
RECURSIVE BitsVal(_)
BitsVal(b) ==
  IF b = <<>> THEN 0 ELSE 2 * BitsVal(SubSeq(b, 1, Len(b) - 1)) + b[Len(b)]

\* b without its leading zeros
StripZeros(b) ==
  LET ones == {k \in 1..Len(b) : b[k] = 1}
  IN  IF ones = {} THEN <<>>
      ELSE SubSeq(b, CHOOSE k \in ones : \A j \in ones : k <= j, Len(b))

\* b + 1
Incr(b) ==
  LET zs == {k \in 1..Len(b) : b[k] = 0}
  IN  IF zs = {} THEN <<1>> \o Zeros(Len(b))
      ELSE LET z == CHOOSE k \in zs : \A j \in zs : j <= k
           IN  [k \in 1..Len(b) |-> IF k < z THEN b[k] ELSE IF k = z THEN 1 ELSE 0]

\* a + b for bit sequences of one length whose sum has that length: a
\* carry enters place k when a lower place generates one and every place
\* between passes it on
AddBits(a, b) ==
  LET n == Len(a)
      carry(k) == \E j \in (k + 1)..n :
                    /\ a[j] + b[j] = 2
                    /\ \A i \in (k + 1)..(j - 1) : a[i] + b[i] = 1
  IN  [k \in 1..n |-> (a[k] + b[k] + IF carry(k) THEN 1 ELSE 0) % 2]

\* round to nearest, ties to even: the Number nearest to the value whose
\* digits are b0 * 2^e, sticky telling that the exact value lies above it
RoundNearestEven(b0, e, sticky) ==
  LET b == StripZeros(b0)
      L == Len(b)
      p == SignificandBits
  IN  IF b = <<>> THEN [m |-> <<>>, e |-> 0]
      ELSE IF L <= p THEN [m |-> b \o Zeros(p - L), e |-> e - (p - L)]
      ELSE LET keep == SubSeq(b, 1, p)
               half == b[p + 1] = 1
               more == sticky \/ \E k \in (p + 2)..L : b[k] = 1
               up   == half /\ (more \/ keep[p] = 1)
               r    == IF up THEN Incr(keep) ELSE keep
           IN  IF Len(r) > p THEN [m |-> SubSeq(r, 1, p), e |-> e + (L - p) + 1]
               ELSE [m |-> r, e |-> e + (L - p)]

\* 2^k mod t, for t < 2^15
RECURSIVE Pow2Mod(_, _)
Pow2Mod(k, t) ==
  IF k = 0 THEN 1 % t
  ELSE LET h == Pow2Mod(k \div 2, t)
       IN  (h * h * (IF k % 2 = 1 THEN 2 ELSE 1)) % t

\* the first n binary digits of r / t (0 <= r < t < 2^15) after the point:
\* digit k is the carry of doubling the remainder r * 2^(k-1) mod t
FracDigits(r, t, n) ==
  [ bits |-> [k \in 1..n |-> IF 2 * ((r * Pow2Mod(k - 1, t)) % t) >= t THEN 1 ELSE 0],
    rem  |-> (r * Pow2Mod(n, t)) % t ]

\* a / b for integers a >= 0, b > 0
NumDiv(a, b) ==
  LET f == FracDigits(a % b, b, FractionBits)
  IN  RoundNearestEven(ToBits(a \div b) \o f.bits, 0 - FractionBits, f.rem # 0)

\* x * 100: 100 = 64 + 32 + 4
NumTimes100(x) ==
  IF x.m = <<>> THEN x
  ELSE LET w  == SignificandBits + 7
           sh(k) == Zeros(w - SignificandBits - k) \o x.m \o Zeros(k)
       IN  RoundNearestEven(AddBits(AddBits(sh(6), sh(5)), sh(2)), x.e, FALSE)

\* Math.floor(x) for 0 <= x < 2^30
MathFloor(x) ==
  IF x.m = <<>> THEN 0
  ELSE IF x.e >= 0 THEN BitsVal(x.m \o Zeros(x.e))
  ELSE IF SignificandBits + x.e <= 0 THEN 0
  ELSE BitsVal(SubSeq(x.m, 1, SignificandBits + x.e))

\* Math.ceil(x) for 0 <= x < 2^30
MathCeil(x) ==
  IF x.m = <<>> THEN 0
  ELSE IF x.e >= 0 THEN BitsVal(x.m \o Zeros(x.e))
  ELSE LET k == IF SignificandBits + x.e > 0 THEN SignificandBits + x.e ELSE 0
       IN  MathFloor(x) + IF \E j \in (k + 1)..SignificandBits : x.m[j] = 1 THEN 1 ELSE 0

----------------------------------------------------------------------------
\* The other routes of fetch and handleAPI.

Scopes == {"visiting", "local"}

\* the value of KV.PARTIAL(scope)
Partial(doc, scope) == IF scope = "visiting" THEN doc.partial ELSE doc.partial_local

\* the body of getAudit's response on the document doc (the members that
\* are dates, and the average, are left out)
AuditBody(doc, scope) ==
  LET partial == storeGet(Partial(doc, scope), <<>>)
      job == doc.job
      isActive == /\ job # None
                  /\ The(job).scope = scope
                  /\ Len(The(job).cids) > 0
                  /\ The(job).cursor < The(job).total
      active ==
        IF isActive
        THEN << [ id |-> "current_job", type |-> scope, status |-> "active",
                  progress |-> MathFloor(NumTimes100(NumDiv(The(job).cursor,
                                                             The(job).total))),
                  ticksRemaining |-> MathCeil(NumDiv(The(job).total - The(job).cursor,
                                                     SLICE_SIZE)) ] >>
        ELSE <<>>
      targetHours == IF scope = "visiting" THEN 10 ELSE 15
      completed ==
        [k \in 1..Len(partial) |->
           [ cid |-> partial[k].cid, type |-> scope,
             status |-> IF partial[k].hours >= targetHours THEN "completed"
                        ELSE "active",
             hoursLogged |-> partial[k].hours, ticksRemaining |-> 0 ]]
  IN  [ active |-> active,
        completed |-> completed,
        stats |-> [ totalActive |-> Len(active),
                    totalCompleted |->
                      Cardinality({k \in 1..Len(completed) :
                                     completed[k].status = "completed"}) ] ]

\* GET /api/audit/<scope>: fetch -> handleAPI -> getAudit
GetAudit(i, scope, getOk) ==
  /\ CanStart(i)
  /\ UNCHANGED << remote, clock >>
  /\ LoadChoice(i, getOk)
  /\ UseFaults(LoadFaults(i, getOk))
  /\ LET s0 == resetBudgets(Iso(i))
         ld == storeLoad(s0, getOk)
         r1 == [NewInv(i, "AUDIT", NoCid) EXCEPT !.pre = ld.store, !.scope = scope]
     IN  IF ld.err THEN Respond(i, ld, r1, 500, "GitHub GET failed")
         ELSE Respond(i, ld, [r1 EXCEPT !.body = Some(AuditBody(The(ld.store), scope))],
                      200, "")

\* POST /api/audit/run: fetch -> handleAPI, where no route matches
PostAuditRun(i) ==
  /\ CanStart(i)
  /\ UNCHANGED << remote, clock >>
  /\ UseFaults(0)
  /\ Respond(i, resetBudgets(Iso(i)), NewInv(i, "RUN", NoCid), 404, "Not Found")

\* OPTIONS on any path: fetch -> handleCORS
Options(i) ==
  /\ CanStart(i)
  /\ UNCHANGED << remote, clock >>
  /\ UseFaults(0)
  /\ LET s0 == resetBudgets(Iso(i))
     IN  Commit(i, s0, TailFlush(s0, handleCORS(NewInv(i, "OPTIONS", NoCid))), TRUE)

\* GET /: the health check of fetch
Health(i) ==
  /\ CanStart(i)
  /\ UNCHANGED << remote, clock >>
  /\ UseFaults(0)
  /\ Respond(i, resetBudgets(Iso(i)), NewInv(i, "HEALTH", NoCid), 200, "")

\* a path that is neither / nor under /api/: the last return of fetch
NotFound(i) ==
  /\ CanStart(i)
  /\ UNCHANGED << remote, clock >>
  /\ UseFaults(0)
  /\ Respond(i, resetBudgets(Iso(i)), NewInv(i, "OTHER", NoCid), 404, "Not Found")

----------------------------------------------------------------------------
\* Every route on one instance, started from a persisted document with or
\* without a watchlist and an audit job under way.
HttpDocs == {EmptyDoc} \cup SeedDocs

\* cid fields of POST /api/watchlist: digits, digits around a letter, letters
HttpBodies ==
  { StrCid(<<"1", "0", "0">>), StrCid(<<"1", "a", "0", "0">>),
    StrCid(<<"a", "b", "c">>) }

InitHttp ==
  /\ remote \in {[doc |-> d, sha |-> 1] : d \in HttpDocs}
  /\ GH_STORE = [i \in Isolates |-> None]
  /\ GH_STORE_SHA = [i \in Isolates |-> 0]
  /\ GH_STORE_DIRTY = [i \in Isolates |-> FALSE]
  /\ subreqCount = [i \in Isolates |-> 0]
  /\ inv = [i \in Isolates |-> IdleInv]
  /\ clock = 1
  /\ nInv = 0
  /\ nFaults = 0
  /\ lastDone = NoDone
  /\ call = NoCall
  /\ ui = NoUi

NextHttp ==
  \/ Options(1)
  \/ Health(1)
  \/ NotFound(1)
  \/ PostAuditRun(1)
  \/ \E sc \in Scopes, g \in BOOLEAN : GetAudit(1, sc, g)
  \/ \E b \in HttpBodies, g \in BOOLEAN, a \in BOOLEAN : PostWatchlist(1, b, g, a)
  \/ \E p \in DeletePaths, g \in BOOLEAN : DeleteWatchlist(1, p, g)
  \/ \E g \in BOOLEAN, f \in FeedResponses : GetWatchlist(1, g, f)
  \/ \E o \in Outcomes : Put1(1, o)

SpecHttp == InitHttp /\ [][NextHttp]_vars

\* C14: a POST /api/audit/run made while the persisted document holds an
\* active audit job (cursor < total) is answered with status 409 and leaves
\* audit:job as it was.
C14_RunWhileActiveIs409 ==
  [][ \A i \in Isolates :
        (Starts(i) /\ inv'[i].kind = "RUN" /\ ActiveJob(remote.doc)) =>
          /\ inv'[i].status = 409
          /\ remote'.doc.job = remote.doc.job ]_vars

----------------------------------------------------------------------------
\* C15: whatever fails during a scheduled tick (the store load, the store
\* flush, the request budget, the feed), the promise returned by
\* handleScheduled resolves: no completed tick has rejected.
C15_TickResolves ==
  \A i \in Isolates : (Done(i) /\ inv[i].kind = "SCHED") => inv[i].status = 1

\* C16: the 500 response to an unexpected exception does not depend on the
\* exception: any two completed requests answered with status 500 carry the
\* same error text in their bodies.
C16_ServerErrorBodiesEqual ==
  \A i, j \in Isolates :
    (Done(i) /\ Done(j) /\ inv[i].status = 500 /\ inv[j].status = 500) =>
      inv[i].error = inv[j].error

\* C17: a POST /api/watchlist whose cid is a JSON number of 3 to 10 digits,
\* of an existing member that is not on the watchlist, is treated as the
\* digit string is: when no request fails it writes the watchlist with the
\* CID added and is not answered with an error.
C17_NumericCidAccepted ==
  [][ \A i \in Isolates :
        LET a == inv'[i].arg
            c == String(a.n)
        IN  ( /\ Starts(i) /\ inv'[i].kind = "POST" /\ a.t = "num"
              /\ Len(c) >= 3 /\ Len(c) <= 10 /\ c \in Members
              /\ nFaults' = nFaults
              /\ c \notin Range(Watchlist(remote.doc))
              /\ GH_STORE[i] # None => c \notin Range(Watchlist(The(GH_STORE[i]))) )
            => /\ inv'[i].wrote
               /\ inv'[i].status \in {0, 200}
               /\ c \in Range(Watchlist(The(GH_STORE'[i]))) ]_vars

\* C18: a POST /api/watchlist whose cid string contains a character that is
\* not a digit is answered 400 and writes nothing; one whose canonical CID
\* is already on the watchlist the handler read is not inserted again.
C18_NonDigitsRejected ==
  [][ \A i \in Isolates :
        LET a == inv'[i].arg
        IN  (Starts(i) /\ inv'[i].kind = "POST" /\ a.t = "str") =>
              /\ (\E k \in 1..Len(a.s) : ~IsDigit(a.s[k])) =>
                   /\ inv'[i].status = 400
                   /\ ~inv'[i].wrote
                   /\ GH_STORE_DIRTY'[i] = GH_STORE_DIRTY[i]
              /\ ( /\ canonicalCID(a) # None
                   /\ inv'[i].pre # None
                   /\ The(canonicalCID(a)) \in Range(Watchlist(The(inv'[i].pre))) ) =>
                   /\ ~inv'[i].wrote
                   /\ Watchlist(The(GH_STORE'[i])) = Watchlist(The(inv'[i].pre)) ]_vars

----------------------------------------------------------------------------
\* GET /api/audit/<scope> on persisted documents with an audit job of
\* either scope at the start, after 29 slices and at its end, and with
\* partial results of either scope.
AuditTotal == 500

AuditJob(scope, cursor) ==
  [ scope |-> scope, cids |-> JobCids(AuditTotal), cursor |-> cursor,
    total |-> AuditTotal, created_at |-> Instants[1].epoch ]

AuditJobs ==
  {None} \cup {Some(AuditJob(sc, c)) : sc \in Scopes,
                                       c \in {0, 29 * SLICE_SIZE, AuditTotal}}

Row(cid, hours) == [cid |-> cid, hours |-> hours]

PartialRows ==
  { None,
    Some(<< Row(<<"1", "0", "0">>, 12) >>),
    Some(<< Row(<<"1", "0", "0">>, 12), Row(<<"2", "0", "0">>, 3) >>) }

AuditDocs ==
  { [EmptyDoc EXCEPT !.job = j, !.partial = pv, !.partial_local = pl] :
      j \in AuditJobs, pv \in PartialRows, pl \in PartialRows }

InitAudit ==
  /\ remote \in {[doc |-> d, sha |-> 1] : d \in AuditDocs}
  /\ GH_STORE = [i \in Isolates |-> None]
  /\ GH_STORE_SHA = [i \in Isolates |-> 0]
  /\ GH_STORE_DIRTY = [i \in Isolates |-> FALSE]
  /\ subreqCount = [i \in Isolates |-> 0]
  /\ inv = [i \in Isolates |-> IdleInv]
  /\ clock = 1
  /\ nInv = 0
  /\ nFaults = 0
  /\ lastDone = NoDone
  /\ call = NoCall
  /\ ui = NoUi

NextAudit == \E sc \in Scopes, g \in BOOLEAN : GetAudit(1, sc, g)

SpecAudit == InitAudit /\ [][NextAudit]_vars

\* C19: the body of a 200 response of GET /api/audit/<scope>, against the
\* document the handler read: active has one entry when audit:job exists
\* with that scope and cursor < total and none otherwise; the entry's
\* progress is floor(100 * cursor / total) and lies in 0..99; completed
\* has one entry per row of audit:partial:<scope>; stats.totalActive is
\* the length of active.
C19_AuditBody ==
  \A i \in Isolates :
    (Done(i) /\ inv[i].kind = "AUDIT" /\ inv[i].status = 200) =>
      LET doc == The(inv[i].pre)
          b == The(inv[i].body)
          scope == inv[i].scope
          live == /\ doc.job # None
                  /\ The(doc.job).scope = scope
                  /\ The(doc.job).cursor < The(doc.job).total
      IN  /\ Len(b.active) = IF live THEN 1 ELSE 0
          /\ live =>
               /\ b.active[1].progress =
                    (100 * The(doc.job).cursor) \div The(doc.job).total
               /\ b.active[1].progress \in 0..99
          /\ Len(b.completed) = Len(storeGet(Partial(doc, scope), <<>>))
          /\ \A k \in 1..Len(b.completed) :
               b.completed[k].cid = storeGet(Partial(doc, scope), <<>>)[k].cid
          /\ b.stats.totalActive = Len(b.active)

----------------------------------------------------------------------------
\* the responses of the worker: the invocations of fetch that have produced
\* their Response
Responded(i) == inv[i].kind \notin {"none", "SCHED"} /\ inv[i].status # 0

\* the three headers every response is to carry, with the configured origin
CorsHeaders ==
  { Header("Access-Control-Allow-Origin", The(ALLOWED_ORIGIN)),
    Header("Access-Control-Allow-Methods", "GET, POST, DELETE, OPTIONS"),
    Header("Access-Control-Allow-Headers", "Content-Type") }

MaxAge == Header("Access-Control-Max-Age", "86400")

\* C20 as stated: every response, JSON or preflight, carries the allowed
\* origin, methods and headers and max-age 86400.
C20_AsStated ==
  \A i \in Isolates :
    Responded(i) => (CorsHeaders \cup {MaxAge}) \subseteq inv[i].headers

\* C20: every response carries Access-Control-Allow-Origin with the
\* configured origin, Access-Control-Allow-Methods 'GET, POST, DELETE,
\* OPTIONS' and Access-Control-Allow-Headers 'Content-Type'; the OPTIONS
\* preflight carries Access-Control-Max-Age 86400 as well, and the JSON
\* responses carry no Access-Control-Max-Age.
C20_CorsEnvelope ==
  \A i \in Isolates :
    Responded(i) =>
      /\ CorsHeaders \subseteq inv[i].headers
      /\ inv[i].kind = "OPTIONS" => MaxAge \in inv[i].headers
      /\ inv[i].kind # "OPTIONS" =>
           \A h \in inv[i].headers : h.name # "Access-Control-Max-Age"

\* a preflight has been answered after other requests
C20_Witness ==
  /\ Done(1) /\ inv[1].kind = "OPTIONS" /\ inv[1].status = 200
  /\ MaxAge \in inv[1].headers
  /\ nInv > 1

----------------------------------------------------------------------------
\* C21: in a scheduled tick that has budget left, the presence tracker
\* runs whether or not an audit job is active: a tick that starts on an
\* instance whose copy is loaded (so no time is lost loading) and holds an
\* active job asks the feed.
C21_PresenceRunsWithJob ==
  [][ \A i \in Isolates :
        ( /\ Starts(i) /\ inv'[i].kind = "SCHED"
          /\ GH_STORE[i] # None
          /\ ActiveJob(The(GH_STORE[i])) )
        => inv'[i].feed # None ]_vars

----------------------------------------------------------------------------
\* The keys of a store document and the value of one (None: absent).
DocKeys ==
  {<<"watchlist">>, <<"online_state">>, <<"job">>, <<"partial">>,
   <<"partial_local">>, <<"last_cleanup">>}
    \cup {<<"member", c>> : c \in CanonCids}
    \cup {<<"qauto", q>> : q \in QKeys}

KeyVal(doc, k) ==
  CASE k[1] = "watchlist"     -> doc.watchlist
    [] k[1] = "online_state"  -> doc.online_state
    [] k[1] = "job"           -> doc.job
    [] k[1] = "partial"       -> doc.partial
    [] k[1] = "partial_local" -> doc.partial_local
    [] k[1] = "last_cleanup"  -> doc.last_cleanup
    [] k[1] = "member"        -> doc.member[k[2]]
    [] k[1] = "qauto"         -> doc.qauto[k[2]]

\* the keys whose value differs between two documents
Edited(base, doc) == {k \in DocKeys : KeyVal(doc, k) # KeyVal(base, k)}

\* C23: two invocations edited disjoint key sets of one version of the
\* document, the first has persisted and the second's flush got 409: after
\* its re-fetch and merge the second holds, for every key it did not edit,
\* the value the first wrote (or its deletion), also when the key existed
\* in the version both started from.
C23_MergeKeepsBothEdits ==
  [][ \A i \in Isolates :
        ( /\ inv[i].pc = "refetch" /\ inv'[i].pc = "put2"
          /\ nFaults = 0
          /\ remote.sha = GH_STORE_SHA[i] + 1
          /\ inv[i].pre # None
          /\ Edited(The(inv[i].pre), The(GH_STORE[i]))
               \cap Edited(The(inv[i].pre), remote.doc) = {} )
        => \A k \in DocKeys \ Edited(The(inv[i].pre), The(GH_STORE[i])) :
             KeyVal(The(GH_STORE'[i]), k) = KeyVal(remote.doc, k) ]_vars

----------------------------------------------------------------------------
\* storeFlush under two instances that add to the watchlist.
FlushBodies == { StrCid(<<"1", "0", "0">>), StrCid(<<"2", "0", "0">>) }

NextFlush ==
  \/ \E i \in Isolates, b \in FlushBodies, g \in BOOLEAN, a \in BOOLEAN :
       PostWatchlist(i, b, g, a)
  \/ \E i \in Isolates : Flush(i)

SpecFlush == Init /\ [][NextFlush]_vars

\* instance i takes a step of its flush
FlushStep(i) == nInv' = nInv /\ inv'[i] # inv[i]

\* C24: the protocol of storeFlush.  A flush sends requests only while the
\* document is dirty.  Its first PUT carries the last observed sha (so it
\* is accepted exactly when that is the store's sha); only a 409 on the
\* first PUT leads to one re-fetch, which merges and takes the fetched sha,
\* followed by one more PUT and never a third; a flush that ends without
\* an accepted PUT leaves the dirty flag set; an accepted PUT persists the
\* copy, clears the dirty flag and makes the stored sha the returned one.
C24_FlushProtocol ==
  [][ \A i \in Isolates :
        LET pc  == inv[i].pc
            pc2 == inv'[i].pc
        IN  /\ pc2 \in {"put1", "refetch", "put2"} => GH_STORE_DIRTY'[i]
            /\ (Starts(i) /\ ~GH_STORE_DIRTY'[i]) =>
                 (pc2 = "done" /\ inv'[i].puts = 0)
            /\ FlushStep(i) =>
                 /\ pc \in {"put1", "refetch", "put2"}
                 /\ inv'[i].puts = inv[i].puts + IF pc = "refetch" THEN 0 ELSE 1
                 /\ pc2 = "refetch" =>
                      (pc = "put1" /\ GH_STORE_SHA[i] # remote.sha /\ remote' = remote)
                 /\ pc2 = "put2" =>
                      /\ pc = "refetch"
                      /\ GH_STORE_SHA'[i] = remote.sha
                      /\ GH_STORE'[i] = Some(ShallowMerge(remote.doc, The(GH_STORE[i])))
                      /\ remote' = remote
                 /\ remote' # remote =>
                      /\ pc \in {"put1", "put2"}
                      /\ GH_STORE_SHA[i] = remote.sha
                      /\ remote'.doc = The(GH_STORE[i])
                      /\ GH_STORE_SHA'[i] = remote'.sha
                      /\ ~GH_STORE_DIRTY'[i]
                      /\ pc2 = "done"
                 /\ (remote' = remote /\ pc2 \notin {"refetch", "put2"}) =>
                      /\ GH_STORE_DIRTY'[i]
                      /\ GH_STORE_SHA'[i] = GH_STORE_SHA[i]
                      /\ inv[i].phase = "handler" =>
                           (inv'[i].status = 500 /\ pc2 = "put1" /\ inv'[i].phase = "tail")
                      /\ inv[i].phase = "tail" => pc2 = "done" ]_vars

\* a flush got 409, re-fetched, and its second PUT was accepted
C24_Witness ==
  \E i \in Isolates :
    /\ Done(i) /\ inv[i].puts = 2 /\ inv[i].status = 200
    /\ ~GH_STORE_DIRTY[i]
    /\ GH_STORE_SHA[i] = remote.sha
    /\ remote.doc = The(GH_STORE[i])

----------------------------------------------------------------------------
\* C25: every invocation that reads the store fetches the document from the
\* remote store at its first storeLoad (one request is counted) and works
\* on what that fetch returned, never on a copy an earlier invocation left.
C25_EveryInvocationLoads ==
  [][ \A i \in Isolates :
        (Starts(i) /\ inv'[i].kind \in {"GET", "DELETE", "AUDIT"}) =>
          /\ subreqCount'[i] >= 1
          /\ inv'[i].pre # None => inv'[i].pre = Some(remote.doc) ]_vars

----------------------------------------------------------------------------
\* C26: the edits of an invocation whose flush failed are lost: a later
\* invocation writes to the remote store only what it has computed itself,
\* so an invocation that has changed nothing in the copy it started from
\* does not change the persisted document.
C26_FailedFlushEditsLost ==
  [][ \A i \in Isolates :
        ( /\ FlushStep(i) /\ inv[i].pc = "put1"
          /\ inv[i].pre # None
          /\ GH_STORE[i] = inv[i].pre )
        => remote' = remote ]_vars

----------------------------------------------------------------------------
\* Functions examined on their own: call holds the inputs and the result,
\* the worker's state is left alone.
WorkerVars == << remote, GH_STORE, GH_STORE_SHA, GH_STORE_DIRTY, subreqCount,
                 inv, clock, nInv, nFaults, lastDone >>

Min(a, b) == IF a <= b THEN a ELSE b

----------------------------------------------------------------------------
\* ghFetch.  The outcome of one fetch: it threw (a network error), or a
\* response with its status and its Retry-After header in seconds (None:
\* the header is absent).
NetErr == [err |-> TRUE, status |-> 0, ra |-> None]
Resp(status, ra) == [err |-> FALSE, status |-> status, ra |-> ra]

\* a response status after which ghFetch tries again, any 4xx included
Retryable_Any4xx(status) == status >= 400

\* res.status === 403 || res.status === 429 || res.status >= 500
Retryable(status) == status = 403 \/ status = 429 \/ status >= 500

\* the loop of ghFetch from the given attempt on; outs[k] is the outcome
\* of the k-th fetch, waits the sleeps so far in ms
RECURSIVE ghFetchLoop(_, _, _, _, _)
ghFetchLoop(outs, maxAttempts, attempt, backoff, waits) ==
  IF attempt > maxAttempts
  THEN [res |-> None, attempts |-> attempt - 1, waits |-> waits]
  ELSE LET o == outs[attempt]
           grown == Min(15000, (backoff * 18) \div 10)
       IN  IF o.err
           THEN IF attempt >= maxAttempts
                THEN [res |-> None, attempts |-> attempt, waits |-> waits]
                ELSE ghFetchLoop(outs, maxAttempts, attempt + 1, grown,
                                 Append(waits, backoff))
           ELSE IF Retryable(o.status) /\ attempt < maxAttempts
           THEN LET waitMs == IF o.ra # None THEN The(o.ra) * 1000 ELSE backoff
                IN  ghFetchLoop(outs, maxAttempts, attempt + 1, grown,
                                Append(waits, Min(15000, waitMs)))
           ELSE [res |-> Some(o), attempts |-> attempt, waits |-> waits]

\* ghFetch(url, init, maxAttempts): the response or None for null, with
\* the number of fetches made and the sleeps between them
ghFetch(outs, maxAttempts) == ghFetchLoop(outs, maxAttempts, 1, 700, <<>>)

\* maxAttempts=3
MaxAttempts == 3

FetchOutcomes ==
  { NetErr, Resp(200, None), Resp(404, None), Resp(409, None),
    Resp(403, None), Resp(403, Some(2)), Resp(429, Some(20)),
    Resp(500, None), Resp(503, Some(0)) }

GhFetch(outs) ==
  /\ call' = [fn |-> "ghFetch", in |-> outs, out |-> ghFetch(outs, MaxAttempts)]
  /\ UNCHANGED << WorkerVars, ui >>

NextFetch == \E outs \in [1..MaxAttempts -> FetchOutcomes] : GhFetch(outs)

SpecFetch == Init /\ [][NextFetch]_vars

\* C27: ghFetch makes at most 3 fetches; it fetches again only after a
\* network error or a response 403, 429 or >= 500; before each further
\* fetch it sleeps for the Retry-After seconds of the response when it has
\* them and else for the backoff (700 ms, then floor(700 * 1.8) = 1260 ms),
\* never for more than 15000 ms; a response that is not retryable, or any
\* response to the last fetch, is returned as it is; null is returned only
\* when the last fetch failed with a network error.
C27_GhFetchRetries ==
  call.fn = "ghFetch" =>
    LET outs == call.in
        r == call.out
        n == r.attempts
        backoffMs == <<700, 1260>>
        again(o) == o.err \/ o.status \in {403, 429} \/ o.status >= 500
    IN  /\ n \in 1..3
        /\ \A k \in 1..(n - 1) : again(outs[k])
        /\ Len(r.waits) = n - 1
        /\ \A k \in 1..(n - 1) :
             /\ r.waits[k] <= 15000
             /\ r.waits[k] = IF ~outs[k].err /\ outs[k].ra # None
                             THEN Min(15000, The(outs[k].ra) * 1000)
                             ELSE backoffMs[k]
        /\ ~again(outs[n]) => r.res = Some(outs[n])
        /\ (again(outs[n]) /\ ~outs[n].err) => (n = 3 /\ r.res = Some(outs[n]))
        /\ outs[n].err => (n = 3 /\ r.res = None)
        /\ r.res = None => outs[n].err

\* a network error, then a 403 with Retry-After: 2, then a response
C27_Witness ==
  /\ call.fn = "ghFetch"
  /\ call.out.attempts = 3
  /\ call.out.waits = <<700, 2000>>
  /\ call.out.res = Some(Resp(200, None))

----------------------------------------------------------------------------
\* The outbound calls of one invocation: subreq is subreqCount, sent the
\* number of HTTP requests handed to fetch since resetBudgets.

\* the most outbound calls one invocation makes: the load, the lookups of
\* a slice of SLICE_SIZE members, and a flush
MaxCalls == SLICE_SIZE + 2

BudgetOutcomes == { NetErr, Resp(200, None), Resp(500, None) }

\* fetch/scheduled: resetBudgets()
BeginInvocation ==
  /\ call' = [fn |-> "outbound", subreq |-> 0, sent |-> 0, calls |-> 0]
  /\ UNCHANGED << WorkerVars, ui >>

\* ghGet / ghPut: throw at the budget, else count once and ghFetch
GhRequest(outs) ==
  /\ call.fn = "outbound"
  /\ call.calls < MaxCalls
  /\ call' = IF call.subreq >= SUBREQ_BUDGET_PER_TICK
             THEN [call EXCEPT !.calls = @ + 1]
             ELSE [call EXCEPT !.calls = @ + 1,
                               !.subreq = @ + 1,
                               !.sent = @ + ghFetch(outs, MaxAttempts).attempts]
  /\ UNCHANGED << WorkerVars, ui >>

\* trackedFetch: null at the budget, else count once and fetch once
TrackedFetch ==
  /\ call.fn = "outbound"
  /\ call.calls < MaxCalls
  /\ call' = IF call.subreq >= SUBREQ_BUDGET_PER_TICK
             THEN [call EXCEPT !.calls = @ + 1]
             ELSE [call EXCEPT !.calls = @ + 1,
                               !.subreq = @ + 1,
                               !.sent = @ + 1]
  /\ UNCHANGED << WorkerVars, ui >>

NextBudget ==
  \/ BeginInvocation
  \/ \E outs \in [1..MaxAttempts -> BudgetOutcomes] : GhRequest(outs)
  \/ TrackedFetch

SpecBudget == Init /\ [][NextBudget]_vars

\* C22: within one invocation no more than SUBREQ_BUDGET_PER_TICK = 120
\* requests are sent, and every request sent, the retries of a store GET
\* or PUT included, was counted in subreqCount before it went out.
C22_EveryRequestCounted ==
  call.fn = "outbound" =>
    /\ call.sent <= SUBREQ_BUDGET_PER_TICK
    /\ call.sent <= call.subreq

----------------------------------------------------------------------------
\* cacheGet / cachePut on one key.

\* cachePut(env, key, obj): the value stored at time now
cachePut(obj, now) == Some([obj EXCEPT !.cached_at = now])

\* a time of writing, in seconds since the epoch
CacheT0 == 1000000

CacheAges == {0, 60, TTL_RATING_24H, TTL_MEMBER_7D}

CacheNows == {CacheT0 + d : d \in {0, 60, 61, TTL_RATING_24H, TTL_RATING_24H + 1,
                                   TTL_MEMBER_7D, TTL_MEMBER_7D + 1}}

\* the key is absent, or holds an entry without cached_at, with
\* cached_at 0, or one that cachePut wrote at CacheT0 or a minute later
CacheEntries ==
  {None} \cup {Some([ok |-> TRUE, cached_at |-> c]) : c \in {Absent, 0}}
         \cup {cachePut([ok |-> TRUE, cached_at |-> Absent], t) :
                 t \in {CacheT0, CacheT0 + 60}}

CacheGet(j, maxAgeSec, now) ==
  /\ call' = [fn |-> "cacheGet", j |-> j, maxAgeSec |-> maxAgeSec, now |-> now,
              out |-> cacheGet(j, maxAgeSec, now)]
  /\ UNCHANGED << WorkerVars, ui >>

NextCache ==
  \E j \in CacheEntries, maxAgeSec \in CacheAges, now \in CacheNows :
    CacheGet(j, maxAgeSec, now)

SpecCache == Init /\ [][NextCache]_vars

\* C28: cacheGet returns the entry when it exists, has a cached_at and
\* now - cached_at <= maxAgeSec, and null in every other case, whatever
\* maxAgeSec and cached_at are.
C28_CacheGetIffFresh ==
  call.fn = "cacheGet" =>
    LET fresh == /\ call.j # None
                 /\ The(call.j).cached_at # Absent
                 /\ call.now - The(call.j).cached_at <= call.maxAgeSec
    IN  call.out = IF fresh THEN call.j ELSE None

----------------------------------------------------------------------------
\* maybeStartQuarterlyVisiting at any date.

QuarterDates ==
  [y : {2025, 2026}, m : 0..11, d : {1, 2, 28}, h : {0, 1, 23}]

QuarterTick(now, done) ==
  /\ call' = [fn |-> "maybeStartQuarterlyVisiting", now |-> now, done |-> done,
              wrote |-> QuarterWrite(now, done)]
  /\ UNCHANGED << WorkerVars, ui >>

NextQuarter == \E now \in QuarterDates, done \in BOOLEAN : QuarterTick(now, done)

SpecQuarter == Init /\ [][NextQuarter]_vars

\* C30: maybeStartQuarterlyVisiting writes only when the UTC month is
\* January, April, July or October, the day is 1 and the hour is 0, and
\* the key it writes names the quarter before the current one: Q1, Q2, Q3
\* of the same year in April, July, October and Q4 of the year before in
\* January.
C30_WritesOnlyAtQuarterStart ==
  (call.fn = "maybeStartQuarterlyVisiting" /\ call.wrote # None) =>
    /\ call.now.m \in {0, 3, 6, 9}
    /\ call.now.d = 1
    /\ call.now.h = 0
    /\ The(call.wrote) =
         CASE call.now.m = 3 -> [year |-> call.now.y, q |-> 1]
           [] call.now.m = 6 -> [year |-> call.now.y, q |-> 2]
           [] call.now.m = 9 -> [year |-> call.now.y, q |-> 3]
           [] call.now.m = 0 -> [year |-> call.now.y - 1, q |-> 4]

\* 1 January 2026, 00h UTC, marker absent: 2025Q4 is written
C30_Witness ==
  /\ call.fn = "maybeStartQuarterlyVisiting"
  /\ call.now = [y |-> 2026, m |-> 0, d |-> 1, h |-> 0]
  /\ ~call.done
  /\ call.wrote = Some([year |-> 2025, q |-> 4])

----------------------------------------------------------------------------
\* maybeCleanupStore on a document of two keys: one cached lookup under
\* one of the prefixes that carry cached_at, and one cooldown marker.

CleanupNow == 1750000000

CachedPrefixes ==
  {"rating:", "division:", "member:", "membermeta:", "audit:visiting:", "audit:local:"}

Entry(cached_at, expiresAt) == [cached_at |-> cached_at, expiresAt |-> expiresAt]

\* fresh, older than the TTL, exactly and just over twice 24 h, over twice 7 d
CachedEntries ==
  { Some(Entry(CleanupNow - age, e)) :
      age \in {10, TTL_RATING_24H + 1, 2 * TTL_RATING_24H, 2 * TTL_RATING_24H + 1,
               2 * TTL_MEMBER_7D + 1},
      e \in {Absent, CleanupNow - 1} }
  \cup {Some(Entry(Absent, Absent)), None}

CooldownEntries ==
  { Some(Entry(Absent, e)) : e \in {CleanupNow - 1, CleanupNow, CleanupNow + 900} }
  \cup {None}

\* _last_cleanup: never written, six hours ago, a second less than that
LastCleanups ==
  {None, Some(CleanupNow - STORE_CLEANUP_INTERVAL),
         Some(CleanupNow - STORE_CLEANUP_INTERVAL + 1)}

\* maybeCleanupStore on the document [prefix, cached, cooldown, last_cleanup]
cleanupStore(d, now) ==
  LET lastCleanup == storeGet(d.last_cleanup, 0)
      kept(p, e) == IF e # None /\ SweepDeletes(p, The(e).cached_at, The(e).expiresAt, now)
                    THEN None ELSE e
  IN  IF now - lastCleanup < STORE_CLEANUP_INTERVAL
      THEN [doc |-> d, dirty |-> FALSE]
      ELSE [doc |-> [d EXCEPT !.cached = kept(d.prefix, d.cached),
                              !.cooldown = kept("cooldown:", d.cooldown),
                              !.last_cleanup = Some(now)],
            dirty |-> TRUE]

Cleanup(d) ==
  /\ call' = [fn |-> "maybeCleanupStore", in |-> d, now |-> CleanupNow,
              out |-> cleanupStore(d, CleanupNow)]
  /\ UNCHANGED << WorkerVars, ui >>

NextCleanup ==
  \E p \in CachedPrefixes, c \in CachedEntries, cd \in CooldownEntries,
     l \in LastCleanups :
    Cleanup([last_cleanup |-> l, prefix |-> p, cached |-> c, cooldown |-> cd])

SpecCleanup == Init /\ [][NextCleanup]_vars

\* C29: maybeCleanupStore sweeps iff now - _last_cleanup >= 6 h (a
\* missing _last_cleanup counting as 0).  A sweep deletes exactly the
\* entries with cached_at + 2 * TTL < now, TTL being 7 d under member: and
\* 24 h under rating:, division:, membermeta:, audit:<scope>:, and the
\* entries with expiresAt < now, and sets _last_cleanup to now.  Without a
\* sweep the document is unchanged and not marked dirty.
C29_CleanupSweep ==
  call.fn = "maybeCleanupStore" =>
    LET d == call.in
        out == call.out
        now == call.now
        last == IF d.last_cleanup = None THEN 0 ELSE The(d.last_cleanup)
        ttl(p) == IF p = "member:" THEN 7 * 86400 ELSE 86400
        gone(p, e) == \/ The(e).cached_at # Absent
                         /\ The(e).cached_at + 2 * ttl(p) < now
                      \/ The(e).expiresAt # Absent /\ The(e).expiresAt < now
        after(p, e) == IF e # None /\ gone(p, e) THEN None ELSE e
    IN  IF now - last >= 6 * 3600
        THEN /\ out.doc.cached = after(d.prefix, d.cached)
             /\ out.doc.cooldown = after("cooldown:", d.cooldown)
             /\ out.doc.last_cleanup = Some(now)
             /\ out.doc.prefix = d.prefix
        ELSE out.doc = d /\ ~out.dirty

\* a sweep that drops a rating older than 48 h and an expired cooldown
C29_Witness ==
  /\ call.fn = "maybeCleanupStore"
  /\ call.in.prefix = "rating:"
  /\ call.in.cached = Some(Entry(CleanupNow - 2 * TTL_RATING_24H - 1, Absent))
  /\ call.in.cooldown = Some(Entry(Absent, CleanupNow - 1))
  /\ call.in.last_cleanup = Some(CleanupNow - STORE_CLEANUP_INTERVAL)
  /\ call.out.doc.cached = None
  /\ call.out.doc.cooldown = None
  /\ call.out.doc.last_cleanup = Some(CleanupNow)

----------------------------------------------------------------------------
\* C31: when the fetch of the live feed fails, is answered with a non-ok
\* status or is refused for the subrequest budget, runPresence leaves
\* online_state as it was: no controller is switched to offline.
C31_FailedFeedKeepsState ==
  [][ \A i \in Isolates :
        ( /\ Starts(i) /\ inv'[i].kind = "SCHED"
          /\ inv'[i].feed # None /\ ~The(inv'[i].feed).ok
          /\ inv'[i].pre # None )
        => OnlineState(The(GH_STORE'[i])) = OnlineState(The(inv'[i].pre)) ]_vars

----------------------------------------------------------------------------
\* C32: a read-only request (GET /api/watchlist, GET /api/audit/<scope>,
\* OPTIONS, GET /) sends no store PUT and leaves the persisted document as
\* it is, whatever invocations came before it on the instance.
C32_ReadOnlyNeverPuts ==
  [][ \A i \in Isolates :
        (inv'[i] # inv[i] /\ inv'[i].kind \in {"GET", "AUDIT", "OPTIONS", "HEALTH"})
        => /\ remote' = remote
           /\ inv'[i].puts = 0 ]_vars

----------------------------------------------------------------------------
\* maybeCleanupStore on whole documents, at every sample instant.

SweepOnline ==
  [c \in FeedCids |->
     IF c = <<"1", "0", "0">>
     THEN Some([online |-> TRUE, last_change |-> Instants[1].epoch,
                last_info |-> Some([callsign |-> "ML_APP",
                                    last_seen |-> Instants[1].epoch])])
     ELSE None]

\* every key present or absent; the stamps are those of the first instant
SweepDocs ==
  { [EmptyDoc EXCEPT !.watchlist = w, !.member[<<"1", "0", "0">>] = m,
                     !.online_state = o, !.job = j, !.partial = p,
                     !.partial_local = pl, !.qauto[Q2025Q1] = q,
                     !.last_cleanup = l] :
      w \in {None, Some(SeedWatchlist)},
      m \in {None, Some([ok |-> TRUE, cached_at |-> Instants[1].epoch])},
      o \in {None, Some(SweepOnline)},
      j \in {None, Some(SeedJob)},
      p \in {None, Some(<< Row(<<"1", "0", "0">>, 12) >>)},
      pl \in {None, Some(<< Row(<<"2", "0", "0">>, 3) >>)},
      q \in {None, Some([done |-> TRUE, at |-> Instants[1].epoch])},
      l \in {None, Some(Instants[1].epoch)} }

Sweep(doc) ==
  /\ call' = [fn |-> "sweep", in |-> doc, now |-> ts,
              out |-> maybeCleanupStore([store |-> Some(doc), sha |-> 1,
                                         dirty |-> FALSE, subreq |-> 0,
                                         err |-> FALSE])]
  /\ UNCHANGED << WorkerVars, ui >>

NextSweep ==
  \/ \E doc \in SweepDocs : Sweep(doc)
  \/ Advance

SpecSweep == Init /\ [][NextSweep]_vars

----------------------------------------------------------------------------
\* C34: an entry that cacheGet returns at time now under the TTL of its
\* prefix (7 d for member:, 24 h for the others) is still there after
\* maybeCleanupStore has run at time now.  The entries are those cachePut
\* writes: they carry cached_at and no expiresAt.
C34_FreshEntrySurvivesSweep ==
  ( /\ call.fn = "maybeCleanupStore"
    /\ call.in.cached # None
    /\ The(call.in.cached).expiresAt = Absent
    /\ cacheGet(call.in.cached,
                IF call.in.prefix = "member:" THEN 7 * 86400 ELSE 86400,
                call.now) # None )
  => call.out.doc.cached = call.in.cached

\* a member: entry two days old, fresh for its readers, outlives a sweep
C34_Witness ==
  /\ call.fn = "maybeCleanupStore"
  /\ call.in.prefix = "member:"
  /\ call.in.cached = Some(Entry(CleanupNow - 2 * TTL_RATING_24H - 1, Absent))
  /\ cacheGet(call.in.cached, TTL_MEMBER_7D, call.now) # None
  /\ call.out.doc.last_cleanup = Some(CleanupNow)
  /\ call.out.doc.cached = call.in.cached

----------------------------------------------------------------------------
\* The audit page, in the version that keeps the search and filter state.
\* ui holds the script's variables and, per tab, what the last
\* renderAuditTable left in the DOM.

\* 'audit_' and 'current_job' as strings of characters
AuditPrefix == <<"a", "u", "d", "i", "t", "_">>
CurrentJobId == <<"c", "u", "r", "r", "e", "n", "t", "_", "j", "o", "b">>

\* the characters of an id the worker gives as a literal
Chars(s) == CASE s = "current_job" -> CurrentJobId

\* s.startsWith(p)
StartsWith(s, p) == Len(s) >= Len(p) /\ SubSeq(s, 1, Len(p)) = p

\* the positions at which t occurs in s
Occurrences(s, t) ==
  {i \in 1..(Len(s) - Len(t) + 1) : SubSeq(s, i, i + Len(t) - 1) = t}

\* s.includes(t)
Includes(s, t) == Occurrences(s, t) # {}

\* s.replace(t, ''): the first occurrence is taken out
ReplaceFirst(s, t) ==
  IF Occurrences(s, t) = {} THEN s
  ELSE LET i == CHOOSE x \in Occurrences(s, t) : \A y \in Occurrences(s, t) : x <= y
       IN  SubSeq(s, 1, i - 1) \o SubSeq(s, i + Len(t), Len(s))

\* s.toLowerCase(), on digits, '_', lower-case letters and J, O, B
ToLowerCase(s) ==
  [k \in 1..Len(s) |-> CASE s[k] = "J" -> "j"
                         [] s[k] = "O" -> "o"
                         [] s[k] = "B" -> "b"
                         [] OTHER -> s[k]]

\* whether the object has the property
Has(audit, f) == f \in DOMAIN audit

ITEMS_PER_PAGE == 25

\* normalizeAuditRecord(audit, type) for an audit that is not null
normalizeAuditRecord(audit, type) ==
  LET id == IF Has(audit, "id")
            THEN IF StartsWith(Chars(audit.id), AuditPrefix) THEN Chars(audit.id)
                 ELSE AuditPrefix \o Chars(audit.id)
            ELSE IF Has(audit, "cid") THEN AuditPrefix \o audit.cid
            ELSE AuditPrefix \o <<"u", "n", "k", "n", "o", "w", "n", "_">>
      hoursLogged == IF Has(audit, "hoursLogged") THEN audit.hoursLogged
                     ELSE IF Has(audit, "hours") THEN audit.hours
                     ELSE 0
      names == <<"lastSession", "lastControlled", "last_seen", "lastSeen">>
      given == {k \in 1..4 : Has(audit, names[k])}
      lastSession == IF given = {} THEN None
                     ELSE Some(audit[names[CHOOSE k \in given : \A j \in given : k <= j]])
      flagged == Has(audit, "flagged") /\ audit.flagged = TRUE
      given_status == IF Has(audit, "status") THEN audit.status ELSE ""
      status == IF given_status = "pending" THEN "pending"
                ELSE IF given_status = "flagged" \/ flagged THEN "flagged"
                ELSE IF given_status = "completed" THEN "completed"
                ELSE IF flagged THEN "flagged"
                ELSE IF hoursLogged > 0 \/ lastSession # None THEN "completed"
                ELSE "pending"
  IN  [ id |-> id,
        type |-> IF Has(audit, "type") THEN audit.type ELSE type,
        status |-> status,
        hoursLogged |-> hoursLogged,
        lastSession |-> lastSession,
        flagged |-> status = "flagged" ]

\* list.map(a => normalizeAuditRecord(a, type))
NormalizeAll(list, type) == [k \in 1..Len(list) |-> normalizeAuditRecord(list[k], type)]

\* visitingData or localData
PageData(u, type) == IF type = "visiting" THEN u.visitingData ELSE u.localData

\* getFilteredData(type)
getFilteredData(u, type) ==
  LET filters == u.activeFilters[type]
      keep(audit) ==
        /\ filters.status = "pending" => audit.status = "pending"
        /\ filters.status = "requirement-not-met" => audit.status = "flagged"
        /\ filters.status = "requirement-met" => audit.status = "completed"
        /\ filters.search # <<>> =>
             Includes(ToLowerCase(ReplaceFirst(audit.id, AuditPrefix)),
                      ToLowerCase(filters.search))
  IN  SelectSeq(PageData(u, type), keep)

\* Math.ceil(n / ITEMS_PER_PAGE)
PagesFor(n) == (n + ITEMS_PER_PAGE - 1) \div ITEMS_PER_PAGE

\* the status a row of the table shows for a record
DisplayStatus(audit) ==
  IF audit.status = "pending" THEN "pending"
  ELSE IF audit.status = "flagged" \/ audit.flagged THEN "requirement-not-met"
  ELSE IF audit.status = "completed" THEN "requirement-met"
  ELSE "pending"

\* renderAuditTable(type) with updatePagination: the rows of the table
\* body, whether the pagination bar is displayed, and the buttons
renderAuditTable(u, type) ==
  LET data == getFilteredData(u, type)
      old == u.dom[type]
      totalPages == PagesFor(Len(data))
      page == u.currentPage[type]
      startIdx == (page - 1) * ITEMS_PER_PAGE
      pageData == SubSeq(data, startIdx + 1, Min(startIdx + ITEMS_PER_PAGE, Len(data)))
      rows == [k \in 1..Len(pageData) |->
                 [ cid |-> ReplaceFirst(pageData[k].id, AuditPrefix),
                   status |-> DisplayStatus(pageData[k]),
                   hours |-> pageData[k].hoursLogged ]]
  IN  IF Len(PageData(u, type)) = 0 \/ Len(data) = 0
      THEN [u EXCEPT !.dom[type] = [old EXCEPT !.rows = <<>>, !.shown = FALSE]]
      ELSE IF totalPages <= 1
      THEN [u EXCEPT !.dom[type] = [old EXCEPT !.rows = rows, !.shown = FALSE]]
      ELSE [u EXCEPT !.dom[type] =
              [ rows |-> rows, shown |-> TRUE, prevDisabled |-> page = 1,
                nextDisabled |-> page = totalPages ]]

\* the page when DOMContentLoaded has run and loadAudits is waiting
AuditPageOpened ==
  [ page |-> "audit",
    visitingData |-> <<>>,
    localData |-> <<>>,
    currentTab |-> "visiting",
    currentPage |-> [t \in Scopes |-> 1],
    activeFilters |-> [t \in Scopes |-> [search |-> <<>>, status |-> "all"]],
    dom |-> [t \in Scopes |-> [ rows |-> <<>>, shown |-> TRUE,
                                prevDisabled |-> FALSE, nextDisabled |-> FALSE ]] ]

\* api.getKVData(): the partial results of both scopes as the store keeps
\* them
getKVData(doc) ==
  [ visiting |-> storeGet(doc.partial, <<>>),
    local |-> storeGet(doc.partial_local, <<>>) ]

\* what a failed api.getVisitingAudit() / getLocalAudit() is replaced by
NoAudits == [active |-> <<>>, completed |-> <<>>]

\* loadAudits() once its requests are answered from the document doc; kvOk,
\* vOk, lOk tell which of the three requests succeeded
loadAudits(u, doc, kvOk, vOk, lOk) ==
  LET visiting == IF vOk THEN AuditBody(doc, "visiting") ELSE NoAudits
      local == IF lOk THEN AuditBody(doc, "local") ELSE NoAudits
      u1 == IF kvOk
            THEN [u EXCEPT !.visitingData = NormalizeAll(getKVData(doc).visiting, "visiting"),
                           !.localData = NormalizeAll(getKVData(doc).local, "local")]
            ELSE [u EXCEPT !.visitingData =
                              NormalizeAll(visiting.active \o visiting.completed, "visiting"),
                           !.localData =
                              NormalizeAll(local.active \o local.completed, "local")]
  IN  renderAuditTable(u1, u1.currentTab)

\* the rows of audit:partial:<scope> after n controllers
PartialOf(n) == [k \in 1..n |-> Row(String(1000000 + k), (7 * k) % 20)]

PageDocs ==
  { EmptyDoc,
    [EmptyDoc EXCEPT !.partial = Some(<< Row(<<"1", "0", "0">>, 12),
                                         Row(<<"2", "0", "0">>, 3) >>),
                     !.job = Some(SeedJob)],
    [EmptyDoc EXCEPT !.partial = Some(PartialOf(60)),
                     !.partial_local = Some(PartialOf(30))] }

SearchTerms == { <<>>, <<"0", "0", "0", "0", "1">> }

StatusFilters == {"all", "pending", "requirement-not-met", "requirement-met"}

\* DOMContentLoaded
OpenAuditPage ==
  /\ ui.page = "none"
  /\ ui' = AuditPageOpened
  /\ UNCHANGED << WorkerVars, call >>

\* loadAudits completes: at page load or after a click on the refresh button
LoadAudits(doc, kvOk, vOk, lOk) ==
  /\ ui.page = "audit"
  /\ ui' = loadAudits(ui, doc, kvOk, vOk, lOk)
  /\ UNCHANGED << WorkerVars, call >>

\* a click on a tab button: switchTab(tabName)
SwitchTab(tabName) ==
  /\ ui.page = "audit"
  /\ ui' = renderAuditTable([ui EXCEPT !.currentTab = tabName], tabName)
  /\ UNCHANGED << WorkerVars, call >>

\* the buttons of a tab take clicks while the tab is the current one, its
\* pagination bar is displayed and the button is not disabled
Clickable(type) == ui.page = "audit" /\ ui.currentTab = type /\ ui.dom[type].shown

\* the click listener of the previous-page button
ClickPrev(type) ==
  /\ Clickable(type) /\ ~ui.dom[type].prevDisabled
  /\ ui' = IF ui.currentPage[type] > 1
           THEN renderAuditTable([ui EXCEPT !.currentPage[type] = @ - 1], type)
           ELSE ui
  /\ UNCHANGED << WorkerVars, call >>

\* the click listener of the next-page button
ClickNext(type) ==
  /\ Clickable(type) /\ ~ui.dom[type].nextDisabled
  /\ ui' = IF ui.currentPage[type] < PagesFor(Len(PageData(ui, type)))
           THEN renderAuditTable([ui EXCEPT !.currentPage[type] = @ + 1], type)
           ELSE ui
  /\ UNCHANGED << WorkerVars, call >>

\* the debounced input listener of the search box, when it runs
SearchInput(type, searchTerm) ==
  /\ ui.page = "audit" /\ ui.currentTab = type
  /\ ui' = renderAuditTable([ui EXCEPT !.activeFilters[type].search = searchTerm,
                                       !.currentPage[type] = 1], type)
  /\ UNCHANGED << WorkerVars, call >>

\* the change listener of the status filter
FilterChange(type, filter) ==
  /\ ui.page = "audit" /\ ui.currentTab = type
  /\ ui' = renderAuditTable([ui EXCEPT !.activeFilters[type].status = filter,
                                       !.currentPage[type] = 1], type)
  /\ UNCHANGED << WorkerVars, call >>

NextAuditPage ==
  \/ OpenAuditPage
  \/ \E doc \in PageDocs, kvOk \in BOOLEAN, ok \in BOOLEAN :
       LoadAudits(doc, kvOk, ok, ok)
  \/ \E t \in Scopes : SwitchTab(t)
  \/ \E t \in Scopes : ClickPrev(t)
  \/ \E t \in Scopes : ClickNext(t)
  \/ \E t \in Scopes, s \in SearchTerms : SearchInput(t, s)
  \/ \E t \in Scopes, f \in StatusFilters : FilterChange(t, f)

SpecAuditPage == Init /\ [][NextAuditPage]_vars

\* C35: on the audit page the current page of each tab stays within
\* 1..max(1, ceil(filteredCount / 25)) after any clicks, searches, filter
\* changes, tab switches and reloads, and the current tab never shows an
\* empty table body while its filtered result is not empty.
C35_PageWithinRange ==
  ui.page = "audit" =>
    \A t \in Scopes :
      LET n == Len(getFilteredData(ui, t))
      IN  /\ ui.currentPage[t] >= 1
          /\ ui.currentPage[t] <= IF PagesFor(n) > 1 THEN PagesFor(n) ELSE 1
          /\ (t = ui.currentTab /\ n > 0) => Len(ui.dom[t].rows) > 0

\* the hours a scope requires
RequiredHours(type) == IF type = "visiting" THEN 10 ELSE 15

\* C36: when loadAudits has taken the per-scope endpoint path, no row that
\* GET /api/audit/<scope> reported with hours below the scope requirement is
\* displayed by renderAuditTable with status 'requirement-met'.
C36_BelowRequirementNotMet ==
  [][ \A doc \in PageDocs :
        LoadAudits(doc, FALSE, TRUE, TRUE)
        => LET t == ui'.currentTab
               rows == ui'.dom[t].rows
           IN  \A k \in 1..Len(rows) :
                 rows[k].hours < RequiredHours(t)
                 => rows[k].status # "requirement-met" ]_vars

----------------------------------------------------------------------------
\* The dashboard page.  timers is the set of interval timers the browser
\* holds for the page; refreshInterval is the script's variable.

\* the ids setInterval hands out are bounded
MaxTimerId == 6

\* what api.getStats() and api.getPresence() answer, as the counts the
\* cards show; a failed request shows 0
DashboardAnswers ==
  { [totalWatched |-> w, onlineNow |-> n] : w \in {0, 2, SeedTotal}, n \in {0, 1} }

\* the module script has run: refreshInterval = null, listeners registered
DashboardScript(hidden) ==
  [ page |-> "dashboard",
    phase |-> "script",
    hidden |-> hidden,
    refreshInterval |-> None,
    timers |-> {},
    nextTimer |-> 1,
    cards |-> [totalWatched |-> 0, onlineNow |-> 0] ]

\* loadDashboard() once its two requests are answered
loadDashboard(u, answer) == [u EXCEPT !.cards = answer]

\* startAutoRefresh()
startAutoRefresh(u) ==
  [u EXCEPT !.refreshInterval = Some(u.nextTimer),
            !.timers = @ \cup {u.nextTimer},
            !.nextTimer = @ + 1]

\* stopAutoRefresh()
stopAutoRefresh(u) ==
  IF u.refreshInterval # None
  THEN [u EXCEPT !.timers = @ \ {The(u.refreshInterval)},
                 !.refreshInterval = None]
  ELSE u

\* the page is opened, in the foreground or in a background tab
OpenDashboard(hidden) ==
  /\ ui.page = "none"
  /\ ui' = DashboardScript(hidden)
  /\ UNCHANGED << WorkerVars, call >>

\* the DOMContentLoaded listener
DOMContentLoaded(answer) ==
  /\ ui.page = "dashboard" /\ ui.phase = "script"
  /\ ui.nextTimer <= MaxTimerId
  /\ ui' = [startAutoRefresh(loadDashboard(ui, answer)) EXCEPT !.phase = "ready"]
  /\ UNCHANGED << WorkerVars, call >>

\* the visibilitychange listener; document.hidden has changed.  While
\* the page unloads the document can only become hidden.
VisibilityChange(answer) ==
  /\ ui.page = "dashboard"
  /\ ui.phase = "unloading" => ~ui.hidden
  /\ ui.hidden => ui.nextTimer <= MaxTimerId
  /\ ui' = IF ~ui.hidden
           THEN [stopAutoRefresh(ui) EXCEPT !.hidden = TRUE]
           ELSE [startAutoRefresh(loadDashboard(ui, answer)) EXCEPT !.hidden = FALSE]
  /\ UNCHANGED << WorkerVars, call >>

\* an interval timer fires: loadDashboard()
TimerFires(id, answer) ==
  /\ ui.page = "dashboard"
  /\ id \in ui.timers
  /\ ui' = loadDashboard(ui, answer)
  /\ UNCHANGED << WorkerVars, call >>

\* the beforeunload listener
BeforeUnload ==
  /\ ui.page = "dashboard" /\ ui.phase = "ready"
  /\ ui' = [stopAutoRefresh(ui) EXCEPT !.phase = "unloading"]
  /\ UNCHANGED << WorkerVars, call >>

NextDashboard ==
  \/ \E hidden \in BOOLEAN : OpenDashboard(hidden)
  \/ \E answer \in DashboardAnswers : DOMContentLoaded(answer)
  \/ \E answer \in DashboardAnswers : VisibilityChange(answer)
  \/ \E id \in 1..MaxTimerId, answer \in DashboardAnswers : TimerFires(id, answer)
  \/ BeforeUnload

SpecDashboard == Init /\ [][NextDashboard]_vars

\* C37: on the dashboard at most one auto-refresh interval timer is active,
\* and none while the page is hidden or after unload.
C37_AtMostOneTimer ==
  ui.page = "dashboard" =>
    /\ Cardinality(ui.timers) <= 1
    /\ (ui.hidden \/ ui.phase = "unloading") => ui.timers = {}

----------------------------------------------------------------------------
\* The watchlist page: the add-controller modal and its form.

\* isValidCID(cid) of utils.js, on a string without white space:
\* /^\d{3,10}$/
isValidCID(cid) ==
  /\ Len(cid) >= 3 /\ Len(cid) <= 10
  /\ \A k \in 1..Len(cid) : \E d \in 1..Len(Digits) : Digits[d] = cid[k]

\* what the user types into the CID input
TypedCids == { <<>>, <<"1", "2">>, <<"1", "0", "0">>, <<"2", "0", "0">>, <<"a", "b", "c">> }

\* the page once its script has run: modal not displayed, form enabled
WatchlistPage ==
  [ page |-> "watchlist",
    modal |-> FALSE,
    cidInput |-> <<>>,
    status |-> "",
    disabled |-> FALSE,
    pending |-> None,
    closeTimer |-> FALSE,
    watchlist |-> {},
    shown |-> {} ]

\* openModal()
openModal(u) == [u EXCEPT !.modal = TRUE, !.cidInput = <<>>, !.status = ""]

\* closeModal()
closeModal(u) == [u EXCEPT !.modal = FALSE]

OpenWatchlist ==
  /\ ui.page = "none"
  /\ ui' = WatchlistPage
  /\ UNCHANGED << WorkerVars, call >>

\* a click on the add-controller button of the page
OpenModal ==
  /\ ui.page = "watchlist" /\ ~ui.modal
  /\ ui' = openModal(ui)
  /\ UNCHANGED << WorkerVars, call >>

\* the close button, a click outside the modal, or the Escape key
CloseModal ==
  /\ ui.page = "watchlist" /\ ui.modal
  /\ ui' = closeModal(ui)
  /\ UNCHANGED << WorkerVars, call >>

\* the user types into the CID input, which a disabled input refuses
TypeCid(v) ==
  /\ ui.page = "watchlist" /\ ui.modal /\ ~ui.disabled
  /\ ui' = [ui EXCEPT !.cidInput = v]
  /\ UNCHANGED << WorkerVars, call >>

\* the submit listener of the form up to its await; a form whose controls
\* are disabled cannot be submitted
Submit ==
  /\ ui.page = "watchlist" /\ ui.modal /\ ~ui.disabled
  /\ ui' = IF ~isValidCID(ui.cidInput)
           THEN [ui EXCEPT !.status = "invalid"]
           ELSE [ui EXCEPT !.status = "adding", !.disabled = TRUE,
                           !.pending = Some(ui.cidInput)]
  /\ UNCHANGED << WorkerVars, call >>

\* api.addToWatchlist(cid) resolves, the worker having added the CID to its
\* watchlist: the rest of the try block
AddResolves ==
  /\ ui.page = "watchlist" /\ ui.pending # None
  /\ ui' = [ui EXCEPT !.status = "success", !.pending = None,
                      !.closeTimer = TRUE,
                      !.watchlist = @ \cup ui.pending]
  /\ UNCHANGED << WorkerVars, call >>

\* api.addToWatchlist(cid) rejects: the catch block
AddRejects ==
  /\ ui.page = "watchlist" /\ ui.pending # None
  /\ ui' = [ui EXCEPT !.status = "error", !.pending = None, !.disabled = FALSE]
  /\ UNCHANGED << WorkerVars, call >>

\* the 1500 ms timer set after a success: closeModal(), loadWatchlist()
CloseTimerFires ==
  /\ ui.page = "watchlist" /\ ui.closeTimer
  /\ ui' = [closeModal(ui) EXCEPT !.closeTimer = FALSE, !.shown = ui.watchlist]
  /\ UNCHANGED << WorkerVars, call >>

\* the user reloads the page while no request is in flight: the script runs
\* again and loadWatchlist() shows the worker's list
ReloadWatchlist ==
  /\ ui.page = "watchlist" /\ ui.pending = None
  /\ ui' = [WatchlistPage EXCEPT !.watchlist = ui.watchlist, !.shown = ui.watchlist]
  /\ UNCHANGED << WorkerVars, call >>

NextWatchlist ==
  \/ OpenWatchlist
  \/ OpenModal
  \/ CloseModal
  \/ \E v \in TypedCids : TypeCid(v)
  \/ Submit
  \/ AddResolves
  \/ AddRejects
  \/ CloseTimerFires
  \/ ReloadWatchlist

SpecWatchlist == Init /\ [][NextWatchlist]_vars

\* C38: whenever the add-controller modal is opened, after any submits,
\* closes and re-opens, its form controls are enabled, so that another CID
\* can be submitted.
C38_OpenedModalEnabled ==
  [][ (ui.page = "watchlist" /\ OpenModal) => ~ui'.disabled ]_vars

----------------------------------------------------------------------------
\* debounce(func, wait) of utils.js, as the search box uses it.  Time is
\* counted in ticks.  A timer's callback runs when its delay has passed or
\* later, as the event loop gets to it; log records the calls of the
\* debounced function and the invocations of func in the order they happen.

\* wait, in ticks
Wait == 2

\* how long after its delay a timer callback may run, in ticks
MaxLate == 1

\* the events one run records
MaxEvents == 5

\* the arguments of the calls: the value of the search box
DebounceArgs == {"a", "ab"}

\* debounce(func, Wait) has returned executedFunction; no timer is set
Debounced == [page |-> "debounce", now |-> 0, timeout |-> None, log |-> <<>>]

\* setTimeout(later, wait) with no wait given to it
executedFunction_NoWait(u, args) ==
  [u EXCEPT !.timeout = Some([args |-> args, due |-> u.now]),
            !.log = Append(@, [at |-> u.now, e |-> "call", args |-> args])]

\* executedFunction(...args): clearTimeout(timeout);
\* timeout = setTimeout(later, wait)
executedFunction(u, args) ==
  [u EXCEPT !.timeout = Some([args |-> args, due |-> u.now + Wait]),
            !.log = Append(@, [at |-> u.now, e |-> "call", args |-> args])]

\* later(): clearTimeout(timeout); func(...args)
later(u) ==
  [u EXCEPT !.timeout = None,
            !.log = Append(@, [at |-> u.now, e |-> "func",
                               args |-> The(u.timeout).args])]

OpenDebounce ==
  /\ ui.page = "none"
  /\ ui' = Debounced
  /\ UNCHANGED << WorkerVars, call >>

\* an input event: the debounced function is called
CallDebounced(args) ==
  /\ ui.page = "debounce"
  /\ Len(ui.log) < MaxEvents
  /\ ui' = executedFunction(ui, args)
  /\ UNCHANGED << WorkerVars, call >>

\* the timer's callback runs, its delay having passed
TimerRuns ==
  /\ ui.page = "debounce"
  /\ ui.timeout # None /\ ui.now >= The(ui.timeout).due
  /\ ui' = later(ui)
  /\ UNCHANGED << WorkerVars, call >>

\* a tick passes; a timer is not left waiting more than MaxLate ticks, and
\* with no timer set the next call is at most Wait ticks away
Tick ==
  /\ ui.page = "debounce"
  /\ Len(ui.log) < MaxEvents
  /\ ui.now < IF ui.timeout # None THEN The(ui.timeout).due + MaxLate
              ELSE IF ui.log = <<>> THEN Wait
              ELSE ui.log[Len(ui.log)].at + Wait
  /\ ui' = [ui EXCEPT !.now = @ + 1]
  /\ UNCHANGED << WorkerVars, call >>

NextDebounce ==
  \/ OpenDebounce
  \/ \E args \in DebounceArgs : CallDebounced(args)
  \/ TimerRuns
  \/ Tick

SpecDebounce == Init /\ [][NextDebounce]_vars

\* the calls recorded before event k, and the most recent of them
CallsBefore(k) == {j \in 1..(k - 1) : ui.log[j].e = "call"}
LastCallBefore(k) == CHOOSE j \in CallsBefore(k) : \A i \in CallsBefore(k) : i <= j

\* the calls recorded after event k
CallsAfter(k) == {j \in (k + 1)..Len(ui.log) : ui.log[j].e = "call"}

\* call k is the last of a burst: no call follows less than Wait after it
EndsBurst(k) ==
  /\ ui.log[k].e = "call"
  /\ \A j \in CallsAfter(k) :
       (\A i \in CallsAfter(k) : j <= i) => ui.log[j].at - ui.log[k].at >= Wait

\* the invocations of func that follow call k before any other call
InvocationsOf(k) ==
  {j \in (k + 1)..Len(ui.log) :
     ui.log[j].e = "func" /\ \A i \in CallsAfter(k) : j < i}

\* func is never invoked earlier than Wait after the most recent call
NeverEarly ==
  \A k \in 1..Len(ui.log) :
    ui.log[k].e = "func" =>
      /\ CallsBefore(k) # {}
      /\ ui.log[k].at >= ui.log[LastCallBefore(k)].at + Wait

\* C39 as stated: every burst of calls less than Wait apart leads to exactly
\* one invocation of func, once Wait has passed after the burst's last call
\* and with that call's arguments, and func is never invoked earlier than
\* Wait after the most recent call.
C39_OncePerBurst ==
  ui.page = "debounce" =>
    /\ NeverEarly
    /\ \A k \in 1..Len(ui.log) :
         (EndsBurst(k) /\ (CallsAfter(k) # {} \/ ui.now > ui.log[k].at + Wait + MaxLate))
         => /\ Cardinality(InvocationsOf(k)) = 1
            /\ \A j \in InvocationsOf(k) : ui.log[j].args = ui.log[k].args

\* C39 as amended: func is never invoked earlier than Wait after the most
\* recent call; every invocation has the arguments of the most recent call
\* and follows a call directly, so func is invoked at most once per call that
\* no other call has followed before the timer's callback ran; and while the
\* last event is a call, the timer is set for that call's time plus Wait
\* with that call's arguments.
C39_DebounceLastCall ==
  ui.page = "debounce" =>
    /\ NeverEarly
    /\ \A k \in 1..Len(ui.log) :
         ui.log[k].e = "func" =>
           /\ k > 1 /\ ui.log[k - 1].e = "call"
           /\ ui.log[k].args = ui.log[k - 1].args
    /\ (ui.log # <<>> /\ ui.log[Len(ui.log)].e = "call") =>
         ui.timeout = Some([args |-> ui.log[Len(ui.log)].args,
                            due |-> ui.log[Len(ui.log)].at + Wait])
    /\ (ui.log # <<>> /\ ui.log[Len(ui.log)].e = "func") => ui.timeout = None

\* a burst of two calls has been followed by one invocation of func
C39_Witness ==
  /\ ui.page = "debounce"
  /\ Len(ui.log) >= 3
  /\ ui.log[1].e = "call" /\ ui.log[2].e = "call" /\ ui.log[3].e = "func"
  /\ ui.log[2].at - ui.log[1].at < Wait
  /\ ui.log[1].args # ui.log[2].args

====
